---------------------------- MODULE Spec2Model ----------------------------
(***************************************************************************)
(* The pysealer VS Code extension as a state machine.                      *)
(*                                                                         *)
(* Every invocation of lockFile / checkFile / removeFile / initProject is  *)
(* an entry of `ops`: the handler runs synchronously up to its first       *)
(* await, and each later await (getPythonPath, execAsync, the prompts of   *)
(* the initialize-project command, the setTimeout that disposes the status *)
(* item) is a suspension point at which any other event may be handled.    *)
(***************************************************************************)
EXTENDS Naturals, Sequences, FiniteSets, TLC

VARIABLES
    ops,              \* one record per handler invocation, in trigger order
    messages,         \* what showErrorMessage / showInformationMessage showed
    workspaceFolders, \* vscode.workspace.workspaceFolders (a sequence of roots)
    bulks,            \* for each initProject of extension.ts, its walk and loop
    activation        \* the calls activate has made, in order (none before it ran)

vars == <<ops, messages, workspaceFolders, bulks, activation>>

(***************************************************************************)
(* Bounds of the model.                                                    *)
(***************************************************************************)
\* handler invocations that get as far as creating an entry of ops
MaxOps == 3
\* those among them that a command (not a save) started
MaxCommands == 2
\* levels of directories below the root of a project tree
MaxDepth == 2

(***************************************************************************)
(* The environment: documents, workspace roots, interpreters, tool output. *)
(***************************************************************************)
None == "undefined"

Docs ==
    { [fsPath |-> "/ws/a.py",     languageId |-> "python"],
      [fsPath |-> "/ws/b.py",     languageId |-> "python"],
      [fsPath |-> "/ws/notes.md", languageId |-> "markdown"] }

Paths == { d.fsPath : d \in Docs }

\* vscode.window.activeTextEditor when no editor is open
NoEditor == [fsPath |-> None, languageId |-> None]

\* what vscode.window.activeTextEditor can be when a command is invoked:
\* no editor, a Python document, a document of another language
Editors ==
    { NoEditor,
      [fsPath |-> "/ws/a.py",     languageId |-> "python"],
      [fsPath |-> "/ws/notes.md", languageId |-> "markdown"] }

\* Python documents whose paths hold spaces and double quotes
QuotedDocs ==
    { [fsPath |-> "/ws/a.py",          languageId |-> "python"],
      [fsPath |-> "/ws/my dir/c.py",   languageId |-> "python"],
      [fsPath |-> "/ws/a\" \"d.py",    languageId |-> "python"],
      [fsPath |-> "/ws/my \"e\".py",   languageId |-> "python"] }

\* a Python document inside the root /ws and one outside every root
RootDocs ==
    { [fsPath |-> "/ws/a.py",        languageId |-> "python"],
      [fsPath |-> "/elsewhere/f.py", languageId |-> "python"] }

\* the top-level directory a path lies under
DirOf(p) == IF p = "/elsewhere/f.py" THEN "/elsewhere" ELSE "/ws"

WorkspaceConfigs == { <<>>, <<"/ws">> }

\* workspaces of several roots, /ws first, last or absent
MultiRootConfigs == { <<>>, <<"/ws">>, <<"/other", "/ws">>, <<"/other", "/third">> }

\* what getPythonPath finds around it: whether the Python extension throws when
\* asked, the path it reports ("" when it reports none or is absent), and whether
\* `python3 --version` and `python --version` succeed
PyEnv(extThrows, extPath, python3, python) ==
    [extThrows |-> extThrows, extPath |-> extPath, python3 |-> python3, python |-> python]

\* a machine whose Python extension reports an interpreter and has both commands
ConfiguredEnv == PyEnv(FALSE, "/venv/bin/python", TRUE, TRUE)

PyEnvs ==
    { ConfiguredEnv,
      PyEnv(FALSE, "/venv/bin/python", FALSE, FALSE),
      PyEnv(FALSE, "", TRUE,  TRUE),
      PyEnv(FALSE, "", TRUE,  FALSE),
      PyEnv(FALSE, "", FALSE, TRUE),
      PyEnv(FALSE, "", FALSE, FALSE),
      PyEnv(TRUE,  "", TRUE,  FALSE),
      PyEnv(TRUE,  "", FALSE, FALSE) }

EnvFilePaths == { None, ".env.production" }
GithubTokens == { None, "", "ghp_token" }

\* A text is the set of the phrases it contains; toLowerCase maps phrases.
ToLowerCase(text) ==
    { CASE ph = "Already Initialized" -> "already initialized"
        [] ph = "ALREADY INITIALIZED" -> "already initialized"
        [] ph = "Already Been Initialized" -> "already been initialized"
        [] ph = "Could not import pysealer" -> "could not import pysealer"
        [] ph = "No module named"     -> "no module named"
        [] ph = "SyntaxError: invalid syntax" -> "syntaxerror: invalid syntax"
        [] ph = "ENOENT"              -> "enoent"
        [] ph = "Command failed"      -> "command failed"
        [] ph = "Bundled pysealer not found. Please reinstall the extension."
                                      -> "bundled pysealer not found. please reinstall the extension."
        [] OTHER -> ph
      : ph \in text }

Includes(text, phrase) == phrase \in text

\* the rejections of a promisified exec: message is "Command failed: ..." plus stderr
ExecErrors ==
    { [message |-> {"Command failed", "python3: command not found"},
       stderr  |-> {"python3: command not found"}] }

\* a rejection of exec after the tool wrote `stderr`: Node puts the stderr text
\* into the message, after "Command failed: <command>"
Rejection(stderr) == [message |-> {"Command failed"} \cup stderr, stderr |-> stderr]

\* what the catch block can be handed: rejections of exec for every pattern the
\* error handler looks for, alone and together, a failure to spawn the shell,
\* an output the handler does not know, and an error with no message at all
Failures ==
    { Rejection({"Already Initialized"}),
      Rejection({"ALREADY INITIALIZED", "python3: command not found"}),
      Rejection({"Already Initialized", "No module named"}),
      [message |-> {"spawn /bin/sh", "ENOENT"}, stderr |-> {"already initialized"}],
      Rejection({"Already Been Initialized"}),
      [message |-> {"spawn /bin/sh", "ENOENT"}, stderr |-> {}],
      Rejection({"is not recognized as an internal or external command"}),
      Rejection({"Could not import pysealer"}),
      Rejection({"python3: command not found", "No module named"}),
      Rejection({"SyntaxError: invalid syntax"}),
      [message |-> {}, stderr |-> {}] }

\* strings that contain a space character
HasSpace(s) == s \in { "/my venv/bin/python" }

ServerPath == "/ext/bundled/tool/server.py"

\* no machine seen yet, no error caught yet
NoEnv == PyEnv(FALSE, None, FALSE, FALSE)

NoError == [message |-> {None}, stderr |-> {None}]

BundledNotFound ==
    [message |-> {"Bundled pysealer not found. Please reinstall the extension."},
     stderr  |-> {}]

NotInitialized ==
    [message |-> {"Pysealer utils not initialized. Call initializePysealerUtils first."},
     stderr  |-> {}]

(***************************************************************************)
(* Activation (part_002, activate).                                        *)
(***************************************************************************)
\* the calls of activate, in the order of its statements
Activated ==
    << "initializePysealerUtils",
       "registerLockFileCommand", "registerCheckFileCommand",
       "registerInitProjectCommand", "registerRemoveFileCommand",
       "registerAutoLockHandler" >>

\* activate has made the call
Called(name) == \E k \in 1..Len(activation) : activation[k] = name

\* utils/pysealer.ts: the module variable extensionContext holds a context
extensionContext == Called("initializePysealerUtils")

(***************************************************************************)
(* Pure functions of the source.                                           *)
(***************************************************************************)
\* getPythonPath probing the commands before it asks the Python extension
getPythonPathProbesFirst(env) ==
    IF env.python3 THEN "python3"
    ELSE IF env.python THEN "python"
    ELSE IF ~env.extThrows /\ env.extPath # "" THEN env.extPath
    ELSE "python3"

\* getPythonPath defaulting to the command it probed last
getPythonPathDefaultsToPython(env) ==
    IF ~env.extThrows /\ env.extPath # "" THEN env.extPath
    ELSE IF env.python3 THEN "python3"
    ELSE "python"

\* utils/python.ts: the extension's path, else python3, else python, else python3
getPythonPath(env) ==
    IF ~env.extThrows /\ env.extPath # "" THEN env.extPath
    ELSE IF env.python3 THEN "python3"
    ELSE IF env.python THEN "python"
    ELSE "python3"

\* utils/python.ts: the version probes getPythonPath runs before it returns
getPythonPathProbes(env) ==
    IF ~env.extThrows /\ env.extPath # "" THEN <<>>
    ELSE IF env.python3 THEN <<"python3 --version">>
    ELSE <<"python3 --version", "python --version">>

\* the shell can launch `pythonPath` on the machine `env`
Launchable(env, pythonPath) ==
    CASE pythonPath = "python3" -> env.python3
      [] pythonPath = "python"  -> env.python
      [] OTHER                  -> TRUE

\* the shells exec may run the command string in, by the way they word a
\* command they do not find
Shells == { "bash", "dash", "cmd" }

\* the rejection of exec when the shell does not find the command
CommandNotFound(pythonPath, shell) ==
    LET stderr == CASE shell = "bash" -> {pythonPath \o ": command not found"}
                    [] shell = "dash" -> {pythonPath \o ": not found"}
                    [] shell = "cmd"  ->
                         {"is not recognized as an internal or external command"}
    IN  [message |-> {"Command failed"} \cup stderr, stderr |-> stderr]

\* one word of a command string: the text, and whether it was put in double quotes
Word(text, quoted) == [text |-> text, quoted |-> quoted]

\* getBundledPysealerCommand without the test that server.py is on disk
getBundledPysealerCommandUnchecked(serverExists, pythonPath, targetPath, command, envFilePath, githubToken) ==
    [thrown |-> FALSE, error |-> None,
     cmd |-> <<Word(pythonPath, HasSpace(pythonPath)), Word(ServerPath, TRUE),
               Word(command, FALSE)>>
             \o (IF command = "init" THEN <<>> ELSE <<Word(targetPath, TRUE)>>)]

\* getBundledPysealerCommand without its branch for init: the target path is
\* appended whatever the command is
getBundledPysealerCommandAlwaysTarget(serverExists, pythonPath, targetPath, command, envFilePath, githubToken) ==
    IF ~serverExists
    THEN [thrown |-> TRUE, error |-> BundledNotFound, cmd |-> <<>>]
    ELSE [thrown |-> FALSE, error |-> None,
          cmd |-> <<Word(pythonPath, HasSpace(pythonPath)), Word(ServerPath, TRUE),
                    Word(command, FALSE), Word(targetPath, TRUE)>>]

\* getBundledPysealerCommand adding the token flag whenever a token was given,
\* the empty one included
getBundledPysealerCommandAnyToken(serverExists, pythonPath, targetPath, command, envFilePath, githubToken) ==
    IF ~serverExists
    THEN [thrown |-> TRUE, error |-> BundledNotFound, cmd |-> <<>>]
    ELSE LET head == <<Word(pythonPath, HasSpace(pythonPath)), Word(ServerPath, TRUE),
                       Word(command, FALSE)>>
         IN  IF command = "init"
             THEN [thrown |-> FALSE, error |-> None,
                   cmd |-> head
                           \o (IF envFilePath \notin {None, ""}
                               THEN <<Word(envFilePath, TRUE)>> ELSE <<>>)
                           \o (IF githubToken # None
                               THEN <<Word("--github-token", FALSE),
                                      Word(githubToken, TRUE)>>
                               ELSE <<>>)]
             ELSE [thrown |-> FALSE, error |-> None,
                   cmd |-> head \o <<Word(targetPath, TRUE)>>]

\* utils/pysealer.ts: the command string, as its space-separated words, or the
\* error thrown when no context was stored or the bundled server.py is not on disk
getBundledPysealerCommand(serverExists, pythonPath, targetPath, command, envFilePath, githubToken) ==
    IF ~extensionContext
    THEN [thrown |-> TRUE, error |-> NotInitialized, cmd |-> <<>>]
    ELSE IF ~serverExists
    THEN [thrown |-> TRUE, error |-> BundledNotFound, cmd |-> <<>>]
    ELSE LET quotedPythonPath == Word(pythonPath, HasSpace(pythonPath))
             quotedServerPath == Word(ServerPath, TRUE)
             head == <<quotedPythonPath, quotedServerPath, Word(command, FALSE)>>
         IN  IF command = "init"
             THEN [thrown |-> FALSE, error |-> None,
                   cmd |-> head
                           \o (IF envFilePath \notin {None, ""}
                               THEN <<Word(envFilePath, TRUE)>> ELSE <<>>)
                           \o (IF githubToken \notin {None, ""}
                               THEN <<Word("--github-token", FALSE),
                                      Word(githubToken, TRUE)>>
                               ELSE <<>>)]
             ELSE [thrown |-> FALSE, error |-> None,
                   cmd |-> head \o <<Word(targetPath, TRUE)>>]

\* A string as the shell reads it: a sequence of pieces, each a space, a double
\* quote, or a run of characters that are neither.
SP == " "
DQ == "\""

Chars(text) ==
    CASE text = "/ws/my dir/c.py"   -> <<"/ws/my", SP, "dir/c.py">>
      [] text = "/ws/a\" \"d.py"    -> <<"/ws/a", DQ, SP, DQ, "d.py">>
      [] text = "/ws/my \"e\".py"   -> <<"/ws/my", SP, DQ, "e", DQ, ".py">>
      [] text = "/my venv/bin/python" -> <<"/my", SP, "venv/bin/python">>
      [] OTHER                      -> <<text>>

\* `"${text}"` or `${text}` of the template literals
Quoted(word) ==
    IF word.quoted THEN <<DQ>> \o Chars(word.text) \o <<DQ>> ELSE Chars(word.text)

\* utils/pysealer.ts: the command string, its words joined by single spaces
RECURSIVE CommandString(_)
CommandString(cmd) ==
    IF Len(cmd) = 0 THEN <<>>
    ELSE IF Len(cmd) = 1 THEN Quoted(cmd[1])
    ELSE Quoted(cmd[1]) \o <<SP>> \o CommandString(Tail(cmd))

\* The shell of child_process.exec splitting a command string into arguments:
\* a space outside double quotes ends an argument, a double quote opens or
\* closes a quoted part and is removed, anything else belongs to the argument.
\* `arg` is the argument being read (`open` says one is), `argv` those read.
RECURSIVE ShellSplit(_, _, _, _, _)
ShellSplit(string, inQuotes, arg, open, argv) ==
    IF Len(string) = 0
    THEN IF inQuotes THEN [syntaxError |-> TRUE, argv |-> <<>>]
         ELSE [syntaxError |-> FALSE,
               argv |-> IF open THEN Append(argv, arg) ELSE argv]
    ELSE LET c == Head(string)
             rest == Tail(string)
         IN  IF c = DQ THEN ShellSplit(rest, ~inQuotes, arg, TRUE, argv)
             ELSE IF c = SP /\ ~inQuotes
             THEN ShellSplit(rest, FALSE, <<>>, FALSE,
                             IF open THEN Append(argv, arg) ELSE argv)
             ELSE ShellSplit(rest, inQuotes, Append(arg, c), TRUE, argv)

ShellWords(string) == ShellSplit(string, FALSE, <<>>, FALSE, <<>>)

\* a message shown to the user: its level, its fixed text, and the text it quotes
Message(level, text, detail) == [level |-> level, text |-> text, detail |-> detail]

\* handlePysealerError matching its patterns without lower-casing the text
handlePysealerErrorCaseSensitive(error) ==
    LET errorMessage    == error.message
        combinedMessage == error.message \cup error.stderr
    IN  IF \/ Includes(combinedMessage, "already initialized")
           \/ Includes(combinedMessage, "already been initialized")
        THEN Message("info", "Project is already initialized with pysealer.", {})
        ELSE IF \/ Includes(combinedMessage, "python: command not found")
                \/ Includes(combinedMessage, "python3: command not found")
                \/ Includes(combinedMessage,
                            "is not recognized as an internal or external command")
                \/ Includes(errorMessage, "ENOENT")
        THEN Message("error",
                     "Python is not installed or not found in PATH. Please install Python 3.8 or later.",
                     {})
        ELSE IF \/ Includes(combinedMessage, "could not import pysealer")
                \/ Includes(combinedMessage, "no module named")
        THEN Message("error",
                     "Pysealer bundled libraries are missing. Please reinstall the extension.",
                     {})
        ELSE Message("error", "Pysealer error: ", errorMessage)

\* handlePysealerError with a fixed text in its last branch
handlePysealerErrorGeneric(error) ==
    LET errorMessage    == error.message
        combinedMessage == ToLowerCase(error.message \cup error.stderr)
    IN  IF \/ Includes(combinedMessage, "already initialized")
           \/ Includes(combinedMessage, "already been initialized")
        THEN Message("info", "Project is already initialized with pysealer.", {})
        ELSE IF \/ Includes(combinedMessage, "python: command not found")
                \/ Includes(combinedMessage, "python3: command not found")
                \/ Includes(combinedMessage,
                            "is not recognized as an internal or external command")
                \/ Includes(errorMessage, "ENOENT")
        THEN Message("error",
                     "Python is not installed or not found in PATH. Please install Python 3.8 or later.",
                     {})
        ELSE IF \/ Includes(combinedMessage, "could not import pysealer")
                \/ Includes(combinedMessage, "no module named")
        THEN Message("error",
                     "Pysealer bundled libraries are missing. Please reinstall the extension.",
                     {})
        ELSE Message("error", "Pysealer error", {})

\* handlePysealerError testing for the import failures before the interpreter
handlePysealerErrorImportFirst(error) ==
    LET errorMessage    == error.message
        combinedMessage == ToLowerCase(error.message \cup error.stderr)
    IN  IF \/ Includes(combinedMessage, "already initialized")
           \/ Includes(combinedMessage, "already been initialized")
        THEN Message("info", "Project is already initialized with pysealer.", {})
        ELSE IF \/ Includes(combinedMessage, "could not import pysealer")
                \/ Includes(combinedMessage, "no module named")
        THEN Message("error",
                     "Pysealer bundled libraries are missing. Please reinstall the extension.",
                     {})
        ELSE IF \/ Includes(combinedMessage, "python: command not found")
                \/ Includes(combinedMessage, "python3: command not found")
                \/ Includes(combinedMessage,
                            "is not recognized as an internal or external command")
                \/ Includes(errorMessage, "ENOENT")
        THEN Message("error",
                     "Python is not installed or not found in PATH. Please install Python 3.8 or later.",
                     {})
        ELSE Message("error", "Pysealer error: ", errorMessage)

\* utils/errorHandler.ts: the one message shown for a caught error
handlePysealerError(error) ==
    LET errorMessage    == error.message
        combinedMessage == ToLowerCase(error.message \cup error.stderr)
    IN  IF \/ Includes(combinedMessage, "already initialized")
           \/ Includes(combinedMessage, "already been initialized")
        THEN Message("info", "Project is already initialized with pysealer.", {})
        ELSE IF \/ Includes(combinedMessage, "python: command not found")
                \/ Includes(combinedMessage, "python3: command not found")
                \/ Includes(combinedMessage,
                            "is not recognized as an internal or external command")
                \/ Includes(errorMessage, "ENOENT")
        THEN Message("error",
                     "Python is not installed or not found in PATH. Please install Python 3.8 or later.",
                     {})
        ELSE IF \/ Includes(combinedMessage, "could not import pysealer")
                \/ Includes(combinedMessage, "no module named")
        THEN Message("error",
                     "Pysealer bundled libraries are missing. Please reinstall the extension.",
                     {})
        ELSE Message("error", "Pysealer error: ", errorMessage)

\* vscode.workspace.getWorkspaceFolder(uri): the root the path lies under
getWorkspaceFolder(folders, p) ==
    IF \E k \in 1..Len(folders) : folders[k] = DirOf(p) THEN DirOf(p) ELSE None

\* Cwd without the look-up of the folder that owns the path
CwdFirstFolder(folders, p) ==
    IF Len(folders) > 0 THEN folders[1] ELSE None

\* the cwd of lockFile / checkFile / removeFile
Cwd(folders, p) ==
    IF getWorkspaceFolder(folders, p) # None THEN getWorkspaceFolder(folders, p)
    ELSE IF Len(folders) > 0 THEN folders[1]
    ELSE None

(***************************************************************************)
(* File discovery (extension.ts, findPythonFiles).                         *)
(*                                                                         *)
(* A directory on disk is what readdir reports for it: whether it can be   *)
(* read, and its entries in the order readdir returns them.  An entry is a *)
(* regular file, a directory, or something else (a symbolic link), for     *)
(* which Dirent.isFile() and Dirent.isDirectory() are both false.          *)
(***************************************************************************)
Entry(name, type, readable, entries) ==
    [name |-> name, type |-> type, readable |-> readable, entries |-> entries]

File(name) == Entry(name, "file", TRUE, <<>>)

Link(name) == Entry(name, "symlink", TRUE, <<>>)

Dir(name, readable, entries) == Entry(name, "dir", readable, entries)

\* names that end with ".py"
EndsWithPy(name) == name \in { "a.py", "b.py", "c.py", "n.py", "l.py" }

\* path.join(dirPath, name)
Join(dirPath, name) == dirPath \o "/" \o name

DirNames == { "pkg", "node_modules", ".git" }

\* what a directory holds beside its subdirectory: a Python file, or a file of
\* another kind and a symbolic link whose name ends with ".py"
FileLists == { << File("a.py") >>, << File("notes.md"), Link("l.py") >> }

\* a readable directory that readdir lists after the one beside it
LaterDir == Dir("later", TRUE, << File("n.py") >>)

\* the directories called one of `names` with at most `depth` levels below them:
\* each holds files only, or one subdirectory with a Python file after it, or
\* before it, or with another directory after it
RECURSIVE Dirs(_, _)
Dirs(depth, names) ==
    { Dir(name, readable, entries) :
        name \in names, readable \in BOOLEAN,
        entries \in FileLists \cup
            (IF depth = 0 THEN {}
             ELSE UNION { { << sub, File("a.py") >>,
                            << File("a.py"), sub >>,
                            << sub, LaterDir >> } : sub \in Dirs(depth - 1, DirNames) }) }

\* the project directories File Discovery is run on
Trees == Dirs(MaxDepth, { "root" })

\* findPythonFiles with a shorter list of directories to skip
excludeDirsWithoutGit ==
    { "venv", ".venv", "node_modules", "__pycache__", "dist", "build", ".tox",
      ".pytest_cache" }

excludeDirs ==
    { "venv", ".venv", "node_modules", "__pycache__", ".git", "dist", "build",
      ".tox", ".pytest_cache" }

\* The walk returns the files collected so far and whether it was left by an
\* exception.
Walked(pythonFiles, thrown) == [pythonFiles |-> pythonFiles, thrown |-> thrown]

RECURSIVE searchDirectory(_, _, _)
RECURSIVE searchEntries(_, _, _)

\* the for loop of searchDirectory over the entries read, from the first on;
\* an exception thrown by the body leaves the loop
searchEntries(dirPath, entries, pythonFiles) ==
    IF entries = <<>> THEN Walked(pythonFiles, FALSE)
    ELSE LET entry    == Head(entries)
             fullPath == Join(dirPath, entry.name)
         IN  IF entry.type = "dir"
             THEN IF entry.name \notin excludeDirs
                  THEN LET sub == searchDirectory(entry, fullPath, pythonFiles)
                       IN  IF sub.thrown THEN sub
                           ELSE searchEntries(dirPath, Tail(entries), sub.pythonFiles)
                  ELSE searchEntries(dirPath, Tail(entries), pythonFiles)
             ELSE IF entry.type = "file" /\ EndsWithPy(entry.name)
             THEN searchEntries(dirPath, Tail(entries), Append(pythonFiles, fullPath))
             ELSE searchEntries(dirPath, Tail(entries), pythonFiles)

\* searchDirectory without its try / catch: a failed readdir leaves it by exception
searchDirectoryUncaught(dir, dirPath, pythonFiles) ==
    IF ~dir.readable THEN Walked(pythonFiles, TRUE)
    ELSE searchEntries(dirPath, dir.entries, pythonFiles)

\* searchDirectory: readdir, then the loop; whatever is thrown is caught and logged
searchDirectory(dir, dirPath, pythonFiles) ==
    LET tried == IF ~dir.readable THEN Walked(pythonFiles, TRUE)
                 ELSE searchEntries(dirPath, dir.entries, pythonFiles)
    IN  Walked(tried.pythonFiles, FALSE)

\* findPythonFiles(rootPath), the directory at rootPath being `tree`
findPythonFiles(tree, rootPath) == searchDirectory(tree, rootPath, <<>>)


(***************************************************************************)
(* Handler invocations.                                                    *)
(*                                                                         *)
(* pc: pickEnv, inputEnv, pickToken, inputToken (prompts of the            *)
(*     initialize-project command), cancelled (a prompt was dismissed),    *)
(*     resolve (awaiting getPythonPath), exec (awaiting execAsync, the     *)
(*     subprocess is running), hung (awaiting execAsync, the subprocess    *)
(*     is one that never exits), ok (succeeded, the setTimeout that        *)
(*     disposes the status item is pending), closed (succeeded, item       *)
(*     disposed), failed (the catch block ran).                            *)
(* item: none, spinning, success, disposed (the operation's status item).  *)
(* envFilePath, githubToken: the prompt answers, held until the command    *)
(*     string is built.                                                    *)
(* pyEnv, pythonPath, probes: the machine getPythonPath ran on, the path   *)
(*     it returned and the version probes it ran.                          *)
(* command: the command string handed to execAsync, while it runs.         *)
(* error: the error the catch block caught.                                *)
(* An initProject of extension.ts also has an entry in bulks; its pc is    *)
(*     initResolve (awaiting getPythonPath), initExec (awaiting the init   *)
(*     subprocess), locking (awaiting the lock subprocess of the next file *)
(*     found), then ok, closed or failed as above.                         *)
(***************************************************************************)
FileKinds == { "lock", "check", "remove" }

\* what an initProject that locks the project's files keeps (an entry of
\* bulks): the project directory as its walk finds it, the files found, the two
\* counters, and the lock runs made so far with their outcomes
Bulk(tree, pythonFiles, lockedCount, failedCount, attempts) ==
    [tree |-> tree, pythonFiles |-> pythonFiles, lockedCount |-> lockedCount,
     failedCount |-> failedCount, attempts |-> attempts]

Op(kind, target, trigger, pc, item, cwd) ==
    [kind |-> kind, target |-> target, trigger |-> trigger, pc |-> pc,
     item |-> item, cwd |-> cwd, envFilePath |-> None, githubToken |-> None,
     pyEnv |-> NoEnv, pythonPath |-> None, probes |-> <<>>,
     command |-> <<>>, error |-> NoError]

OpIds == 1..Len(ops)

\* the operation's subprocess has been started and execAsync has not settled
InFlight(i) == ops[i].pc \in {"exec", "hung"}

\* the handler invocation has returned
Completed(i) == ops[i].pc \in {"ok", "closed", "failed", "cancelled"}

Show(i, m) == messages \cup { [op |-> i, msg |-> m] }

\* there is room, within the bounds, for one more invocation started by `trigger`
Room(trigger) ==
    /\ Len(ops) < MaxOps
    /\ trigger = "command" =>
           Cardinality({ i \in OpIds : ops[i].trigger = "command" }) < MaxCommands

\* lockFile / checkFile / removeFile up to `await getPythonPath()`:
\* the status item is created and shown, the cwd is computed
startFileOp(kind, filePath, trigger) ==
    /\ Room(trigger)
    /\ ops' = Append(ops, Op(kind, filePath, trigger, "resolve", "spinning",
                             Cwd(workspaceFolders, filePath)))
    /\ UNCHANGED <<messages, workspaceFolders, bulks, activation>>

lockFile(filePath, trigger) == startFileOp("lock", filePath, trigger)

checkFile(filePath) == startFileOp("check", filePath, "command")

removeFile(filePath) == startFileOp("remove", filePath, "command")

\* saveHandler without its languageId test
saveHandlerAnyLanguage(document) == lockFile(document.fsPath, "save")

\* events/autoLock.ts: onDidSaveTextDocument
saveHandler(document) ==
    /\ Called("registerAutoLockHandler")
    /\ IF document.languageId = "python"
       THEN lockFile(document.fsPath, "save")
       ELSE UNCHANGED vars

\* the operation a current-file command runs on the active document
fileOperation(kind, filePath) ==
    CASE kind = "lock"   -> lockFile(filePath, "command")
      [] kind = "check"  -> checkFile(filePath)
      [] kind = "remove" -> removeFile(filePath)

\* the handler the three current-file commands share, invoked with `editor` active
currentFileCommand(editor, kind) ==
    IF editor = NoEditor
    THEN /\ messages' = Show(0, Message("error", "No active editor", {}))
         /\ UNCHANGED <<ops, workspaceFolders, bulks, activation>>
    ELSE IF editor.languageId # "python"
    THEN /\ messages' = Show(0, Message("error",
                                "This command only works with Python files", {}))
         /\ UNCHANGED <<ops, workspaceFolders, bulks, activation>>
    ELSE fileOperation(kind, editor.fsPath)

\* extension.ts: the pysealer.lockFile command
lockCommand(editor) ==
    Called("registerLockFileCommand") /\ currentFileCommand(editor, "lock")

\* checkCommand without the test of the active document's language
checkCommandAnyLanguage(editor) ==
    IF editor = NoEditor
    THEN /\ messages' = Show(0, Message("error", "No active editor", {}))
         /\ UNCHANGED <<ops, workspaceFolders, bulks, activation>>
    ELSE checkFile(editor.fsPath)

\* registerCheckFileCommand: the pysealer.checkFile command
checkCommand(editor) ==
    Called("registerCheckFileCommand") /\ currentFileCommand(editor, "check")

\* registerRemoveFileCommand: the pysealer.removeFile command
removeCommand(editor) ==
    Called("registerRemoveFileCommand") /\ currentFileCommand(editor, "remove")

\* initCommand taking the folder opened last for the project root
initCommandLastFolder(editor) ==
    IF Len(workspaceFolders) = 0
    THEN /\ messages' = Show(0, Message("error", "No workspace folder open", {}))
         /\ UNCHANGED <<ops, workspaceFolders, bulks, activation>>
    ELSE /\ Room("command")
         /\ ops' = Append(ops, Op("init", workspaceFolders[Len(workspaceFolders)],
                                  "command", "pickEnv", "none",
                                  workspaceFolders[Len(workspaceFolders)]))
         /\ UNCHANGED <<messages, workspaceFolders, bulks, activation>>

\* registerInitProjectCommand up to its first prompt; it never reads the editor
initCommand(editor) ==
    /\ Called("registerInitProjectCommand")
    /\ IF Len(workspaceFolders) = 0
       THEN /\ messages' = Show(0, Message("error", "No workspace folder open", {}))
            /\ UNCHANGED <<ops, workspaceFolders, bulks, activation>>
       ELSE /\ Room("command")
            /\ ops' = Append(ops, Op("init", workspaceFolders[1], "command",
                                     "pickEnv", "none", workspaceFolders[1]))
            /\ UNCHANGED <<messages, workspaceFolders, bulks, activation>>

\* initProject up to `await getPythonPath()`: the status item is created and shown
initProject(i, envFilePath, githubToken) ==
    ops' = [ops EXCEPT ![i].pc = "resolve", ![i].item = "spinning",
                       ![i].envFilePath = envFilePath,
                       ![i].githubToken = githubToken]

\* a dismissed prompt taken for the choice of the defaults: init is run
cancelRunsInit(i) ==
    ops' = [ops EXCEPT ![i].pc = "resolve", ![i].item = "spinning",
                       ![i].envFilePath = None]

\* a prompt was dismissed: the command handler returns
cancel(i) ==
    ops' = [ops EXCEPT ![i].pc = "cancelled", ![i].envFilePath = None]

\* registerInitProjectCommand: the user answers (or dismisses) the open prompt
promptAnswered(i) ==
    /\ i \in OpIds
    /\ \/ /\ ops[i].pc = "pickEnv"
          /\ \E choice \in {None, "Use default .env file",
                            "Enter .env file path manually"} :
               IF choice = None THEN cancel(i)
               ELSE ops' = [ops EXCEPT ![i].pc =
                               IF choice = "Enter .env file path manually"
                               THEN "inputEnv" ELSE "pickToken"]
       \/ /\ ops[i].pc = "inputEnv"
          /\ \E inputPath \in EnvFilePaths :
               IF inputPath = None THEN cancel(i)
               ELSE ops' = [ops EXCEPT ![i].pc = "pickToken",
                                       ![i].envFilePath = inputPath]
       \/ /\ ops[i].pc = "pickToken"
          /\ \E choice \in {None, "Skip GitHub integration",
                            "Provide GitHub Personal Access Token"} :
               IF choice = None THEN cancel(i)
               ELSE IF choice = "Provide GitHub Personal Access Token"
               THEN ops' = [ops EXCEPT ![i].pc = "inputToken"]
               ELSE initProject(i, ops[i].envFilePath, None)
       \/ /\ ops[i].pc = "inputToken"
          /\ \E githubToken \in GithubTokens :
               IF githubToken = None THEN cancel(i)
               ELSE initProject(i, ops[i].envFilePath, githubToken)
    /\ UNCHANGED <<messages, workspaceFolders, bulks, activation>>

\* catch without the call of handlePysealerError
catchSilently(i, error) ==
    /\ ops' = [ops EXCEPT ![i].pc = "failed", ![i].item = "disposed",
                          ![i].envFilePath = None, ![i].githubToken = None,
                          ![i].command = <<>>, ![i].error = error]
    /\ UNCHANGED messages

\* catch that runs the subprocess again instead of giving up
catchAndRetry(i, error) ==
    /\ ops' = [ops EXCEPT ![i].error = error]
    /\ messages' = Show(i, handlePysealerError(error))

\* catch without the disposal of the status item
catchLeavesItem(i, error) ==
    /\ ops' = [ops EXCEPT ![i].pc = "failed",
                          ![i].envFilePath = None, ![i].githubToken = None,
                          ![i].command = <<>>, ![i].error = error]
    /\ messages' = Show(i, handlePysealerError(error))

\* the catch block of an operation: dispose the status item, show one message
catch(i, error) ==
    /\ ops' = [ops EXCEPT ![i].pc = "failed", ![i].item = "disposed",
                          ![i].envFilePath = None, ![i].githubToken = None,
                          ![i].command = <<>>, ![i].error = error]
    /\ messages' = Show(i, handlePysealerError(error))

\* execAsyncStarts made to wait until no other run for the same path is unfinished
execAsyncStartsWhenPathIdle(i) ==
    /\ i \in OpIds
    /\ ops[i].pc = "resolve"
    /\ \A j \in OpIds \ {i} : ops[j].target = ops[i].target => Completed(j)
    /\ ops' = [ops EXCEPT ![i].pc = "exec",
                          ![i].envFilePath = None, ![i].githubToken = None]
    /\ UNCHANGED <<messages, workspaceFolders, bulks, activation>>

\* execAsyncStarts made to wait until no subprocess at all is in flight
execAsyncStartsOneAtATime(i) ==
    /\ i \in OpIds
    /\ ops[i].pc = "resolve"
    /\ \A j \in OpIds : ~InFlight(j)
    /\ ops' = [ops EXCEPT ![i].pc = "exec",
                          ![i].envFilePath = None, ![i].githubToken = None]
    /\ UNCHANGED <<messages, workspaceFolders, bulks, activation>>

\* the catch block of an operation whose getPythonPath ran on the machine `env`
catchAfterResolve(i, env, error) ==
    /\ ops' = [ops EXCEPT ![i].pc = "failed", ![i].item = "disposed",
                          ![i].envFilePath = None, ![i].githubToken = None,
                          ![i].pyEnv = env,
                          ![i].pythonPath = getPythonPath(env),
                          ![i].probes = getPythonPathProbes(env),
                          ![i].error = error]
    /\ messages' = Show(i, handlePysealerError(error))

\* getPythonPath has returned on the machine `env`: the command is built (with
\* the bundled server.py on disk or not) and handed to execAsync.
\* The subprocess is identified by the operation's kind, target and cwd.
getPythonPathReturns(i, env, serverExists) ==
    /\ i \in OpIds
    /\ ops[i].pc = "resolve"
    /\ LET built == getBundledPysealerCommand(serverExists, getPythonPath(env),
                         ops[i].target, ops[i].kind,
                         ops[i].envFilePath, ops[i].githubToken)
       IN  IF built.thrown
           THEN catchAfterResolve(i, env, built.error)
           ELSE /\ ops' = [ops EXCEPT ![i].pc = "exec",
                                      ![i].envFilePath = None,
                                      ![i].githubToken = None,
                                      ![i].pyEnv = env,
                                      ![i].pythonPath = getPythonPath(env),
                                      ![i].probes = getPythonPathProbes(env),
                                      ![i].command = CommandString(built.cmd)]
                /\ UNCHANGED messages
    /\ UNCHANGED <<workspaceFolders, bulks, activation>>

\* the step above on any of the machines `envs`
execAsyncStartsOn(i, envs) ==
    \E env \in envs, serverExists \in BOOLEAN :
        getPythonPathReturns(i, env, serverExists)

\* the step above on the configured machine
execAsyncStarts(i) == execAsyncStartsOn(i, {ConfiguredEnv})

\* the external tool turns out to be one that never exits
toolNeverExits(i) ==
    /\ i \in OpIds
    /\ ops[i].pc = "exec"
    /\ ops' = [ops EXCEPT ![i].pc = "hung"]
    /\ UNCHANGED <<messages, workspaceFolders, bulks, activation>>

\* what the external tool may write to its standard output before it exits
Stdouts == { "", "All decorators valid", "1 of 2 decorators valid\n", "\n" }

\* String.prototype.trim
Trim(text) ==
    CASE text = "1 of 2 decorators valid\n" -> "1 of 2 decorators valid"
      [] text = "\n"                        -> ""
      [] OTHER                              -> text

\* the lines after `await execAsync` without the display of the results
execAsyncResolvesQuietly(i, stdout) ==
    /\ ops' = [ops EXCEPT ![i].pc = "ok", ![i].item = "success",
                          ![i].command = <<>>]
    /\ UNCHANGED messages

\* the lines after `await execAsync` when the subprocess exited with code 0 and
\* wrote `stdout`: the success text, the timer, and for check the results
execAsyncResolves(i, stdout) ==
    /\ ops' = [ops EXCEPT ![i].pc = "ok", ![i].item = "success",
                          ![i].command = <<>>]
    /\ messages' = IF ops[i].kind = "check" /\ stdout # ""
                   THEN Show(i, Message("info", "Pysealer check: ", {Trim(stdout)}))
                   ELSE messages

\* execAsync settles: the subprocess has exited with code 0 after writing one of
\* `stdouts`, or has failed with one of `errors`, or the shell did not find the
\* interpreter
execAsyncSettlesOf(i, stdouts, errors) ==
    /\ i \in OpIds
    /\ ops[i].pc = "exec"
    /\ IF Launchable(ops[i].pyEnv, ops[i].pythonPath)
       THEN \/ \E stdout \in stdouts : execAsyncResolves(i, stdout)
            \/ \E error \in errors : catch(i, error)
       ELSE \E shell \in Shells : catch(i, CommandNotFound(ops[i].pythonPath, shell))
    /\ UNCHANGED <<workspaceFolders, bulks, activation>>

\* the step above for a tool that writes nothing or one line without a newline
execAsyncSettlesWith(i, errors) ==
    execAsyncSettlesOf(i, {"", "All decorators valid"}, errors)

\* execAsync settles, the tool failing the way a missing interpreter makes it fail
execAsyncSettles(i) == execAsyncSettlesWith(i, ExecErrors)

\* setTimeout(() => statusBarItem.dispose(), 3000) fires
statusTimeout(i) ==
    /\ i \in OpIds
    /\ ops[i].pc = "ok"
    /\ ops' = [ops EXCEPT ![i].pc = "closed", ![i].item = "disposed"]
    /\ UNCHANGED <<messages, workspaceFolders, bulks, activation>>

(***************************************************************************)
(* extension.ts: the initialize-project command that, after init, locks    *)
(* every Python file of the project.                                       *)
(***************************************************************************)
\* the file whose lock subprocess the loop awaits
CurrentFile(i) == bulks[i].pythonFiles[Len(bulks[i].attempts) + 1]

\* the loop of initProject is awaiting a lock subprocess
Locking(i) == ops[i].pc = "locking"

\* what readdir rejects with
ReadError == [message |-> {"EACCES: permission denied, scandir"}, stderr |-> {}]

\* the messages of the final report
NoFilesFound ==
    Message("info",
            "Pysealer project initialized successfully. No Python files found to lock.",
            {})

FinalReport(lockedCount, failedCount) ==
    IF failedCount = 0
    THEN Message("info", "Pysealer project initialized and N Python files locked successfully!",
                 { ToString(lockedCount) \o " locked" })
    ELSE Message("warning", "Pysealer init complete: N files locked, M failed.",
                 { ToString(lockedCount) \o " locked", ToString(failedCount) \o " failed" })

\* one turn of the loop is over for the file at the cursor
Attempted(bulk, locked) ==
    [bulk EXCEPT !.lockedCount = IF locked THEN @ + 1 ELSE @,
                 !.failedCount = IF locked THEN @ ELSE @ + 1,
                 !.attempts = Append(@, [file |-> bulk.pythonFiles[Len(@) + 1],
                                        locked |-> locked])]

\* every file left fails at once: the build of its command throws
RECURSIVE AllFail(_)
AllFail(bulk) ==
    IF Len(bulk.attempts) = Len(bulk.pythonFiles) THEN bulk
    ELSE AllFail(Attempted(bulk, FALSE))

\* the loop that stops at the first failure; the files after it are never tried
loopAbortsOnFailure(i, bulk, serverExists) ==
    LET left   == Len(bulk.attempts) < Len(bulk.pythonFiles)
        failed == bulk.failedCount > 0 \/ ~serverExists
        done   == IF left /\ ~serverExists THEN Attempted(bulk, FALSE) ELSE bulk
    IN  IF left /\ ~failed
        THEN /\ bulks' = [bulks EXCEPT ![i] = bulk]
             /\ ops' = [ops EXCEPT ![i].pc = "locking",
                           ![i].command = CommandString(
                               getBundledPysealerCommand(TRUE, ops[i].pythonPath,
                                   bulk.pythonFiles[Len(bulk.attempts) + 1],
                                   "lock", None, None).cmd)]
             /\ UNCHANGED messages
        ELSE /\ bulks' = [bulks EXCEPT ![i] = done]
             /\ ops' = [ops EXCEPT ![i].pc = "ok",
                           ![i].command = <<>>,
                           ![i].item = IF done.failedCount = 0 THEN "success"
                                       ELSE "warning"]
             /\ messages' = Show(i, FinalReport(done.lockedCount, done.failedCount))

\* the loop taking the files from the last one found to the first
loopInReverse(i, bulk, serverExists) ==
    LET done == IF serverExists THEN bulk ELSE AllFail(bulk)
    IN  IF Len(done.attempts) < Len(done.pythonFiles)
        THEN /\ bulks' = [bulks EXCEPT ![i] = done]
             /\ ops' = [ops EXCEPT ![i].pc = "locking",
                           ![i].command = CommandString(
                               getBundledPysealerCommand(TRUE, ops[i].pythonPath,
                                   done.pythonFiles[Len(done.pythonFiles)
                                                    - Len(done.attempts)],
                                   "lock", None, None).cmd)]
             /\ UNCHANGED messages
        ELSE /\ bulks' = [bulks EXCEPT ![i] = done]
             /\ ops' = [ops EXCEPT ![i].pc = "ok",
                           ![i].command = <<>>,
                           ![i].item = IF done.failedCount = 0 THEN "success"
                                       ELSE "warning"]
             /\ messages' = Show(i, FinalReport(done.lockedCount, done.failedCount))

\* initProject, lines 232-253: the loop from the file at the cursor on.  With
\* server.py on disk the lock subprocess of that file is started and awaited;
\* without it the build throws for every file left.  After the last file the
\* final report is shown and the setTimeout of 5000 started.
loop(i, bulk, serverExists) ==
    LET done == IF serverExists THEN bulk ELSE AllFail(bulk)
    IN  IF Len(done.attempts) < Len(done.pythonFiles)
        THEN /\ bulks' = [bulks EXCEPT ![i] = done]
             /\ ops' = [ops EXCEPT ![i].pc = "locking",
                           ![i].command = CommandString(
                               getBundledPysealerCommand(TRUE, ops[i].pythonPath,
                                   done.pythonFiles[Len(done.attempts) + 1],
                                   "lock", None, None).cmd)]
             /\ UNCHANGED messages
        ELSE /\ bulks' = [bulks EXCEPT ![i] = done]
             /\ ops' = [ops EXCEPT ![i].pc = "ok",
                           ![i].command = <<>>,
                           ![i].item = IF done.failedCount = 0 THEN "success"
                                       ELSE "warning"]
             /\ messages' = Show(i, FinalReport(done.lockedCount, done.failedCount))

\* the pysealer.initProject command of extension.ts, and initProject up to
\* `await getPythonPath()`; `tree` is the project directory on disk
initProjectCommand(tree) ==
    /\ activation # <<>>
    /\ IF Len(workspaceFolders) = 0
       THEN /\ messages' = Show(0, Message("error", "No workspace folder open", {}))
            /\ UNCHANGED <<ops, workspaceFolders, bulks, activation>>
       ELSE /\ Room("command")
            /\ ops' = Append(ops, Op("init", workspaceFolders[1], "command",
                                     "initResolve", "spinning", workspaceFolders[1]))
            /\ bulks' = bulks @@ (Len(ops) + 1 :> Bulk(tree, <<>>, 0, 0, <<>>))
            /\ UNCHANGED <<messages, workspaceFolders, activation>>

\* initProject, lines 205-209: getPythonPath has returned; the init command is
\* built (extension.ts builds the string utils/pysealer.ts builds when given no
\* key file and no token) and handed to execAsync
initProjectResolved(i) ==
    /\ i \in OpIds
    /\ ops[i].pc = "initResolve"
    /\ \E serverExists \in BOOLEAN :
         LET built == getBundledPysealerCommand(serverExists,
                          getPythonPath(ConfiguredEnv), ops[i].target, "init",
                          None, None)
         IN  IF built.thrown
             THEN catchAfterResolve(i, ConfiguredEnv, built.error)
             ELSE /\ ops' = [ops EXCEPT ![i].pc = "initExec",
                                        ![i].pyEnv = ConfiguredEnv,
                                        ![i].pythonPath = getPythonPath(ConfiguredEnv),
                                        ![i].command = CommandString(built.cmd)]
                  /\ UNCHANGED messages
    /\ UNCHANGED <<workspaceFolders, bulks, activation>>

\* initSettlesWith going on to the walk and the loop after init failed
initSettlesLocksAnyway(i, errors) ==
    /\ i \in OpIds
    /\ ops[i].pc = "initExec"
    /\ \E error \in errors :
         LET pythonFiles == findPythonFiles(bulks[i].tree, ops[i].target).pythonFiles
         IN  /\ bulks' = [bulks EXCEPT ![i].pythonFiles = pythonFiles]
             /\ ops' = [ops EXCEPT ![i].error = error,
                           ![i].pc = IF pythonFiles = <<>> THEN "failed" ELSE "locking"]
             /\ messages' = Show(i, handlePysealerError(error))
    /\ UNCHANGED <<workspaceFolders, activation>>

\* initProject, lines 209-236: the init subprocess has exited.  On failure, with
\* one of `errors`, the catch block runs; on success the project is walked (an
\* exception out of the walk would reach the catch block too) and, unless no
\* Python file was found, the loop is entered.
initSettlesWith(i, errors) ==
    /\ i \in OpIds
    /\ ops[i].pc = "initExec"
    /\ \/ LET walked      == findPythonFiles(bulks[i].tree, ops[i].target)
              pythonFiles == walked.pythonFiles
          IN  IF walked.thrown THEN catch(i, ReadError) /\ UNCHANGED bulks
              ELSE IF Len(pythonFiles) = 0
              THEN /\ ops' = [ops EXCEPT ![i].pc = "ok", ![i].item = "success",
                                         ![i].command = <<>>]
                   /\ messages' = Show(i, NoFilesFound)
                   /\ UNCHANGED bulks
              ELSE \E serverExists \in BOOLEAN :
                       loop(i, [bulks[i] EXCEPT !.pythonFiles = pythonFiles],
                            serverExists)
       \/ \E error \in errors : catch(i, error) /\ UNCHANGED bulks
    /\ UNCHANGED <<workspaceFolders, activation>>

\* the step above, init failing the way a missing interpreter makes it fail
initSettles(i) == initSettlesWith(i, ExecErrors)

\* initProject, lines 236-242: the lock subprocess of the file at the cursor
\* has exited, with success or not; the loop goes on
lockSettles(i) ==
    /\ i \in OpIds
    /\ ops[i].pc = "locking"
    /\ \E locked \in BOOLEAN, serverExists \in BOOLEAN :
           loop(i, Attempted(bulks[i], locked), serverExists)
    /\ UNCHANGED <<workspaceFolders, activation>>

Init ==
    /\ ops = <<>>
    /\ messages = {}
    /\ bulks = <<>>
    /\ activation = Activated
    /\ workspaceFolders \in WorkspaceConfigs

Next ==
    \/ \E document \in Docs : saveHandler(document)
    \/ \E editor \in Editors : lockCommand(editor)
    \/ \E editor \in Editors : checkCommand(editor)
    \/ \E editor \in Editors : removeCommand(editor)
    \/ \E editor \in Editors : initCommand(editor)
    \/ \E i \in 1..MaxOps : promptAnswered(i)
    \/ \E i \in 1..MaxOps : execAsyncStarts(i)
    \/ \E i \in 1..MaxOps : toolNeverExits(i)
    \/ \E i \in 1..MaxOps : execAsyncSettles(i)
    \/ \E i \in 1..MaxOps : statusTimeout(i)

Spec == Init /\ [][Next]_vars

(***************************************************************************)
(* The four commands alone, from their invocation to the start of the      *)
(* subprocess: the guards, the prompts, the build of the command.          *)
(***************************************************************************)
NextCommand ==
    \/ \E editor \in Editors : lockCommand(editor)
    \/ \E editor \in Editors : checkCommand(editor)
    \/ \E editor \in Editors : removeCommand(editor)
    \/ \E editor \in Editors : initCommand(editor)
    \/ \E i \in 1..MaxOps : promptAnswered(i)
    \/ \E i \in 1..MaxOps : execAsyncStarts(i)

CommandSpec == Init /\ [][NextCommand]_vars

(***************************************************************************)
(* The four commands, invoked with a Python document active, on a machine  *)
(* that may lack an interpreter, with a tool that exits, with success or   *)
(* with a failure.                                                         *)
(***************************************************************************)
FailingEnvs == { ConfiguredEnv, PyEnv(FALSE, "", FALSE, FALSE) }

NextFailing ==
    \/ \E editor \in Editors \cap Docs : lockCommand(editor)
    \/ \E editor \in Editors \cap Docs : checkCommand(editor)
    \/ \E editor \in Editors \cap Docs : removeCommand(editor)
    \/ \E editor \in Editors \cap Docs : initCommand(editor)
    \/ \E i \in 1..MaxOps : promptAnswered(i)
    \/ \E i \in 1..MaxOps : execAsyncStartsOn(i, FailingEnvs)
    \/ \E i \in 1..MaxOps :
           execAsyncSettlesWith(i, {Rejection({"SyntaxError: invalid syntax"})})

ErrorSpec == Init /\ [][NextFailing]_vars

(***************************************************************************)
(* The lock command on the configured machine, with a tool that may fail   *)
(* in every way the error handler tells apart.                             *)
(***************************************************************************)
NextClassify ==
    \/ \E editor \in Editors : lockCommand(editor)
    \/ \E i \in 1..MaxOps : execAsyncStarts(i)
    \/ \E i \in 1..MaxOps : execAsyncSettlesWith(i, Failures)

ClassifySpec == Init /\ [][NextClassify]_vars

(***************************************************************************)
(* Saves of documents with unusual paths, on machines whose interpreter    *)
(* path may hold a space.                                                  *)
(***************************************************************************)
NextQuoted ==
    \/ \E document \in QuotedDocs : saveHandler(document)
    \/ \E i \in 1..MaxOps :
           execAsyncStartsOn(i, {ConfiguredEnv,
                                 PyEnv(FALSE, "/my venv/bin/python", TRUE, TRUE)})
    \/ \E i \in 1..MaxOps : execAsyncSettles(i)

QuotingSpec == Init /\ [][NextQuoted]_vars

(***************************************************************************)
(* The lock command on every machine, the machine possibly another one     *)
(* each time getPythonPath runs.                                           *)
(***************************************************************************)
NextResolve ==
    \/ \E editor \in Editors : lockCommand(editor)
    \/ \E i \in 1..MaxOps : execAsyncStartsOn(i, PyEnvs)
    \/ \E i \in 1..MaxOps : execAsyncSettles(i)

ResolveSpec == Init /\ [][NextResolve]_vars

(***************************************************************************)
(* Workspaces of any number of roots; saves and commands on a document     *)
(* inside a root and on one outside every root.                            *)
(***************************************************************************)
InitRoots ==
    /\ ops = <<>>
    /\ messages = {}
    /\ bulks = <<>>
    /\ activation = Activated
    /\ workspaceFolders \in MultiRootConfigs

NextRoots ==
    \/ \E document \in RootDocs : saveHandler(document)
    \/ \E editor \in RootDocs : checkCommand(editor)
    \/ \E editor \in RootDocs : removeCommand(editor)
    \/ \E i \in 1..MaxOps : execAsyncStarts(i)

RootSpec == InitRoots /\ [][NextRoots]_vars

(***************************************************************************)
(* File Discovery on every project directory of the bounded shape: the     *)
(* initialize-project command of extension.ts, invoked once, in a project  *)
(* whose root is called ws or build.                                       *)
(***************************************************************************)
InitWalk ==
    /\ ops = <<>>
    /\ messages = {}
    /\ bulks = <<>>
    /\ activation = Activated
    /\ workspaceFolders \in { <<"/ws">>, <<"/build">> }

NextWalk ==
    \/ ops = <<>> /\ \E tree \in Trees : initProjectCommand(tree)
    \/ \E i \in 1..MaxOps : initProjectResolved(i)
    \/ \E i \in 1..MaxOps : initSettles(i)

WalkSpec == InitWalk /\ [][NextWalk]_vars

(***************************************************************************)
(* The initialize-project command of extension.ts on projects of three,    *)
(* one and no eligible files.                                              *)
(***************************************************************************)
ProjectTrees ==
    { Dir("root", TRUE, << File("a.py"), File("b.py"),
                           Dir("pkg", TRUE, << File("c.py") >>) >>),
      Dir("root", TRUE, << File("a.py"), Dir("pkg", FALSE, << File("c.py") >>) >>),
      Dir("root", TRUE, << File("notes.md"), Dir(".git", TRUE, << File("a.py") >>) >>) }

NextInitAll ==
    \/ \E tree \in ProjectTrees : initProjectCommand(tree)
    \/ \E i \in 1..MaxOps : initProjectResolved(i)
    \/ \E i \in 1..MaxOps : initSettles(i)
    \/ \E i \in 1..MaxOps : lockSettles(i)
    \/ \E i \in 1..MaxOps : statusTimeout(i)

InitAllSpec == Init /\ [][NextInitAll]_vars

(***************************************************************************)
(* Both initialize-project commands of the repository, the one of          *)
(* extension.ts and the one of commands/initProject.ts, in one project.    *)
(***************************************************************************)
TheProject ==
    Dir("root", TRUE, << File("a.py"), File("b.py"),
                         Dir("pkg", TRUE, << File("c.py") >>) >>)

NextInitEither ==
    \/ initProjectCommand(TheProject)
    \/ \E editor \in Editors : initCommand(editor)
    \/ \E i \in 1..MaxOps : promptAnswered(i)
    \/ \E i \in 1..MaxOps : execAsyncStarts(i)
    \/ \E i \in 1..MaxOps : execAsyncSettles(i)
    \/ \E i \in 1..MaxOps : initProjectResolved(i)
    \/ \E i \in 1..MaxOps : initSettles(i)
    \/ \E i \in 1..MaxOps : lockSettles(i)

InitEitherSpec == Init /\ [][NextInitEither]_vars

(***************************************************************************)
(* The same command together with saves of the project's documents.        *)
(***************************************************************************)
NextBulk ==
    \/ \E tree \in ProjectTrees : initProjectCommand(tree)
    \/ \E i \in 1..MaxOps : initProjectResolved(i)
    \/ \E i \in 1..MaxOps : initSettles(i)
    \/ \E i \in 1..MaxOps : lockSettles(i)
    \/ \E document \in Docs : saveHandler(document)
    \/ \E i \in 1..MaxOps : execAsyncStarts(i)
    \/ \E i \in 1..MaxOps : execAsyncSettles(i)

BulkSpec == Init /\ [][NextBulk]_vars

(***************************************************************************)
(* The commands on a Python document, with a tool that exits, and the      *)
(* timers that dispose the status items.                                   *)
(***************************************************************************)
NextStatus ==
    \/ \E editor \in Editors \cap Docs : lockCommand(editor)
    \/ \E editor \in Editors \cap Docs : checkCommand(editor)
    \/ \E editor \in Editors \cap Docs : initCommand(editor)
    \/ \E i \in 1..MaxOps : promptAnswered(i)
    \/ \E i \in 1..MaxOps : execAsyncStarts(i)
    \/ \E i \in 1..MaxOps : execAsyncSettles(i)
    \/ \E i \in 1..MaxOps : statusTimeout(i)

StatusSpec == Init /\ [][NextStatus]_vars

(***************************************************************************)
(* The three current-file commands on documents with unusual paths.        *)
(***************************************************************************)
NextQuotedCommands ==
    \/ \E editor \in QuotedDocs : lockCommand(editor)
    \/ \E editor \in QuotedDocs : checkCommand(editor)
    \/ \E editor \in QuotedDocs : removeCommand(editor)
    \/ \E i \in 1..MaxOps : execAsyncStarts(i)

QuotedCommandSpec == Init /\ [][NextQuotedCommands]_vars

(***************************************************************************)
(* The initialize-project command in workspaces of any number of roots.    *)
(***************************************************************************)
NextInitRoots ==
    \/ \E editor \in Editors : initCommand(editor)
    \/ \E i \in 1..MaxOps : promptAnswered(i)
    \/ \E i \in 1..MaxOps : execAsyncStarts(i)

InitRootSpec == InitRoots /\ [][NextInitRoots]_vars

(***************************************************************************)
(* The check and lock commands on a Python document, with a tool that      *)
(* writes a summary, or white space, or nothing, and exits with code 0 or  *)
(* with another.                                                           *)
(***************************************************************************)
CheckFailures ==
    { Rejection({"SyntaxError: invalid syntax"}), Rejection({}) }

NextCheck ==
    \/ \E editor \in Editors \cap Docs : checkCommand(editor)
    \/ \E editor \in Editors \cap Docs : lockCommand(editor)
    \/ \E i \in 1..MaxOps : execAsyncStarts(i)
    \/ \E i \in 1..MaxOps : execAsyncSettlesOf(i, Stdouts, CheckFailures)

CheckSpec == Init /\ [][NextCheck]_vars

(***************************************************************************)
(* The initialize-project command of extension.ts with an init that may    *)
(* fail: the project is initialized already, the tool reports an error of  *)
(* its own, or there is no interpreter.                                    *)
(***************************************************************************)
InitFailures ==
    ExecErrors \cup { Rejection({"Already Initialized"}),
                      Rejection({"SyntaxError: invalid syntax"}) }

NextInitFail ==
    \/ \E tree \in ProjectTrees : initProjectCommand(tree)
    \/ \E i \in 1..MaxOps : initProjectResolved(i)
    \/ \E i \in 1..MaxOps : initSettlesWith(i, InitFailures)
    \/ \E i \in 1..MaxOps : lockSettles(i)

InitFailSpec == Init /\ [][NextInitFail]_vars

(***************************************************************************)
(* The extension from before its activation on: activate, then the         *)
(* commands and the save handler it registered.                            *)
(***************************************************************************)
\* activate without the call of initializePysealerUtils
activateWithoutUtils ==
    /\ activation = <<>>
    /\ activation' = Tail(Activated)
    /\ UNCHANGED <<ops, messages, workspaceFolders, bulks>>

\* part_002: activate, run once by the host, as a whole
activate ==
    /\ activation = <<>>
    /\ activation' = Activated
    /\ UNCHANGED <<ops, messages, workspaceFolders, bulks>>

InitInactive ==
    /\ ops = <<>>
    /\ messages = {}
    /\ bulks = <<>>
    /\ activation = <<>>
    /\ workspaceFolders = << "/ws" >>

\* the Python document that is active when a command is invoked
PythonEditors == { editor \in Editors \cap Docs : editor.languageId = "python" }

NextActivation ==
    \/ activate
    \/ \E document \in PythonEditors : saveHandler(document)
    \/ \E editor \in PythonEditors : lockCommand(editor)
    \/ \E editor \in PythonEditors : checkCommand(editor)
    \/ \E editor \in PythonEditors : removeCommand(editor)
    \/ \E editor \in PythonEditors : initCommand(editor)
    \/ \E i \in 1..MaxOps : promptAnswered(i)
    \/ \E i \in 1..MaxOps : execAsyncStarts(i)

ActivationSpec == InitInactive /\ [][NextActivation]_vars

(***************************************************************************)
(* The lock pipeline alone: every trigger of lockFile (the save handler,   *)
(* and the pysealer.lockFile command with a Python document active) and    *)
(* the steps of its runs.                                                  *)
(***************************************************************************)
NextLock ==
    \/ \E document \in Docs : saveHandler(document)
    \/ \E editor \in Editors \cap Docs : lockCommand(editor)
    \/ \E i \in 1..MaxOps : execAsyncStarts(i)
    \/ \E i \in 1..MaxOps : toolNeverExits(i)
    \/ \E i \in 1..MaxOps : execAsyncSettles(i)
    \/ \E i \in 1..MaxOps : statusTimeout(i)

LockSpec == Init /\ [][NextLock]_vars

(***************************************************************************)
(* The runs the save handler starts, with an external tool that always     *)
(* exits and with the progress the event loop gives: a getPythonPath that  *)
(* was awaited returns and a subprocess that was started exits.            *)
(***************************************************************************)
NextExiting ==
    \/ \E document \in Docs : saveHandler(document)
    \/ \E i \in 1..MaxOps : execAsyncStarts(i)
    \/ \E i \in 1..MaxOps : execAsyncSettles(i)
    \/ \E i \in 1..MaxOps : statusTimeout(i)

ExitingSpec == Init /\ [][NextExiting]_vars

Progress ==
    \A i \in 1..MaxOps :
        /\ WF_vars(execAsyncStarts(i))
        /\ WF_vars(execAsyncSettles(i))

LiveSpec == Init /\ [][NextExiting]_vars /\ Progress


(***************************************************************************)
(* The scheduler the specification describes, stated over the code.        *)
(***************************************************************************)
LockRun(i) == ops[i].kind = "lock"

SamePath(i, j) == ops[i].target = ops[j].target

\* C1: for every path, at most one sealing subprocess started by a save is in
\* flight; a save that arrives during a lock run starts no second subprocess.
C1_OneInFlightPerPath ==
    \A p \in Paths :
        Cardinality({ i \in OpIds : /\ LockRun(i)
                                    /\ ops[i].trigger = "save"
                                    /\ ops[i].target = p
                                    /\ InFlight(i) }) <= 1

\* C2: while a run for a path is in flight, the saves that arrived after its
\* trigger account for at most one follow-up run (pending or started), never two.
C2_AtMostOneFollowUp ==
    \A i \in OpIds :
        (LockRun(i) /\ InFlight(i)) =>
            Cardinality({ j \in OpIds : /\ j > i
                                        /\ LockRun(j)
                                        /\ ops[j].trigger = "save"
                                        /\ SamePath(i, j)
                                        /\ ~Completed(j) }) <= 1

\* C3: the run for a trigger that arrived during a run for the same path starts
\* its subprocess only after every earlier-triggered run for that path completed.
C3_FollowUpStartsAfterCompletion ==
    [][ \A j \in OpIds :
          (LockRun(j) /\ ops[j].pc = "resolve" /\ ops'[j].pc = "exec") =>
              \A i \in 1..(j - 1) :
                  (LockRun(i) /\ SamePath(i, j)) => Completed(i) ]_vars

\* C4: runs for one path are totally ordered: a later-triggered run has sealed the
\* file only if every earlier-triggered run for that path has completed.
C4_TotalOrderPerPath ==
    \A i \in OpIds : \A j \in OpIds :
        (/\ i < j
         /\ LockRun(i) /\ LockRun(j) /\ SamePath(i, j)
         /\ ops[j].pc \in {"ok", "closed"}) => Completed(i)

\* C7: a manual lock / check / remove command on a path never has its subprocess
\* in flight together with another sealing subprocess for the same path.
C7_ManualRespectsInFlight ==
    \A i \in OpIds : \A j \in OpIds :
        (/\ i # j
         /\ ops[i].kind \in FileKinds /\ ops[j].kind \in FileKinds
         /\ SamePath(i, j)
         /\ ops[j].trigger = "command"
         /\ InFlight(i)) => ~InFlight(j)

\* C10: no operation stays in the running state forever: whenever a subprocess
\* is in flight, even one of a tool that never exits, something (its exit, or
\* the timeout that terminates it) can still end the run.
C10_RunningCanAlwaysEnd ==
    \A i \in 1..MaxOps :
        (i \in OpIds /\ InFlight(i)) => ENABLED execAsyncSettles(i)


\* C5: when every started subprocess exits, the lock run started by a save
\* eventually completes; so the run of the last save of a file does.
C5_SaveRunCompletes ==
    \A i \in 1..MaxOps :
        (i \in OpIds /\ ops[i].trigger = "save") ~> (i \in OpIds /\ Completed(i))

C5_Witness ==
    \E i \in OpIds : \E j \in OpIds :
        /\ i < j /\ SamePath(i, j)
        /\ ops[i].trigger = "save" /\ ops[j].trigger = "save"
        /\ ops[j].pc = "ok"

\* C6: a run for an idle path q that awaits its start is never held back by a
\* subprocess in flight for a different path p: its own start is enabled.
C6_DistinctPathsDontBlock ==
    \A j \in 1..MaxOps :
        (/\ j \in OpIds
         /\ ops[j].pc = "resolve"
         /\ \A k \in OpIds \ {j} : SamePath(k, j) => Completed(k)
         /\ \E i \in OpIds : InFlight(i) /\ ~SamePath(i, j))
        => ENABLED execAsyncStarts(j)

C6_Witness ==
    \E i \in OpIds : \E j \in OpIds :
        /\ LockRun(i) /\ LockRun(j)
        /\ ~SamePath(i, j)
        /\ InFlight(i) /\ InFlight(j)

\* C8: a save of a Python document starts exactly one lock operation, whose
\* target is that document's path; a save of any other document changes nothing
\* (no operation, no status item, no subprocess, no message).
C8_SaveDispatchesLock ==
    [][ \A d \in Docs :
          saveHandler(d) =>
              IF d.languageId = "python"
              THEN /\ Len(ops') = Len(ops) + 1
                   /\ SubSeq(ops', 1, Len(ops)) = ops
                   /\ ops'[Len(ops')].kind = "lock"
                   /\ ops'[Len(ops')].target = d.fsPath
                   /\ ops'[Len(ops')].trigger = "save"
              ELSE ops' = ops /\ messages' = messages ]_vars

C8_Witness ==
    \E i \in OpIds :
        /\ LockRun(i) /\ ops[i].trigger = "save"
        /\ ops[i].target = "/ws/b.py"
        /\ InFlight(i)

\* C9 as claimed: each of the four commands starts an operation only when the
\* active editor holds a Python document.
C9_CommandsNeedPythonEditor ==
    [][ \A e \in Editors :
          (/\ \/ lockCommand(e) \/ checkCommand(e)
              \/ removeCommand(e) \/ initCommand(e)
           /\ Len(ops') > Len(ops))
          => e.languageId = "python" ]_vars

\* C9 as amended: lock / check / remove start an operation only when the active
\* editor holds a Python document, and on that document's path; initialize-project
\* starts one only when a workspace folder is open, on the first folder, whatever
\* the active editor is.
C9_CommandGuards ==
    [][ \A e \in Editors :
          /\ (/\ lockCommand(e) \/ checkCommand(e) \/ removeCommand(e)
              /\ Len(ops') > Len(ops))
             => /\ e.languageId = "python"
                /\ ops'[Len(ops')].target = e.fsPath
                /\ ops'[Len(ops')].kind \in FileKinds
          /\ (initCommand(e) /\ Len(ops') > Len(ops))
             => /\ Len(workspaceFolders) > 0
                /\ ops'[Len(ops')].target = workspaceFolders[1]
                /\ ops'[Len(ops')].kind = "init" ]_vars

C9_Witness ==
    \E i \in OpIds : \E j \in OpIds :
        /\ ops[i].kind = "init" /\ InFlight(i)
        /\ ops[j].kind = "check" /\ ops[j].trigger = "command" /\ InFlight(j)

(***************************************************************************)
(* Error handling.                                                         *)
(***************************************************************************)
MessagesOf(i) == { m.msg : m \in { n \in messages : n.op = i } }

\* C11: every failure raised inside an operation is caught at its boundary: the
\* operation ends failed, with its status item disposed and with the one message
\* the error handler shows for that failure; and an operation ends failed only so.
C11_FailuresAreCaughtAndShown ==
    \A i \in OpIds :
        /\ ops[i].error # NoError =>
               /\ ops[i].pc = "failed"
               /\ ops[i].item = "disposed"
               /\ handlePysealerError(ops[i].error) \in MessagesOf(i)
        /\ ops[i].pc = "failed" =>
               /\ ops[i].error # NoError
               /\ \E m \in MessagesOf(i) : m.level \in {"info", "error"}

C11_Witness ==
    \E i \in OpIds : \E j \in OpIds :
        /\ ops[i].kind = "init" /\ ops[i].error = BundledNotFound
        /\ ops[j].kind \in FileKinds
        /\ ops[j].error = CommandNotFound("python3", "bash")

\* the operation caught an error
Caught(i) == ops[i].error # NoError

\* the text contains the phrase in some letter case
IncludesAnyCase(text, phrase) == \E ph \in text : ToLowerCase({ph}) = {phrase}

\* C12: whenever the stderr of the caught failure contains "already initialized"
\* in any letter case, the only message shown for the operation is the
\* informational one, whatever else the message or the stderr contains.
C12_AlreadyInitializedIsInformational ==
    \A i \in OpIds :
        (Caught(i) /\ IncludesAnyCase(ops[i].error.stderr, "already initialized"))
        => MessagesOf(i) =
              { Message("info", "Project is already initialized with pysealer.", {}) }

C12_Witness ==
    \E i \in OpIds : \E j \in OpIds :
        /\ ops[i].error = Rejection({"ALREADY INITIALIZED", "python3: command not found"})
        /\ "ENOENT" \in ops[j].error.message
        /\ "already initialized" \in ops[j].error.stderr
        /\ ops[i].pc = "failed" /\ ops[j].pc = "failed"

\* the patterns of the error handler, and the failures that match none of them
KnownPatterns ==
    { "already initialized", "already been initialized",
      "python: command not found", "python3: command not found",
      "is not recognized as an internal or external command",
      "could not import pysealer", "no module named" }

Unmatched(error) ==
    /\ \A phrase \in KnownPatterns :
           ~IncludesAnyCase(error.message \cup error.stderr, phrase)
    /\ "ENOENT" \notin error.message

\* C13: a caught failure that matches no known pattern is shown as an error
\* message carrying the raw failure message; and no caught failure, matched or
\* not, leaves its operation with no message.
C13_UnmatchedShownRaw ==
    \A i \in OpIds :
        Caught(i) =>
            /\ MessagesOf(i) # {}
            /\ Unmatched(ops[i].error) =>
                   MessagesOf(i) =
                       { Message("error", "Pysealer error: ", ops[i].error.message) }

C13_Witness ==
    \E i \in OpIds : \E j \in OpIds :
        /\ ops[i].error = Rejection({"SyntaxError: invalid syntax"})
        /\ ops[j].error = BundledNotFound
        /\ Message("error", "Pysealer error: ", ops[i].error.message) \in MessagesOf(i)

(***************************************************************************)
(* The command line.                                                       *)
(***************************************************************************)
\* the arguments the shell makes of the command of a running operation
Argv(i) == ShellWords(ops[i].command).argv

\* an argument that is the name of an option
IsFlag(arg) == arg \in { <<"--github-token">>, <<"--env-file">>, <<"--key-file">> }

\* C14 as claimed: in the command of a running init, every argument after
\* `init` is an option name or the value that follows one: no positional path.
C14_InitHasNoPositionalArgument ==
    \A i \in OpIds :
        (ops[i].kind = "init" /\ InFlight(i)) =>
            \A k \in 4..Len(Argv(i)) : IsFlag(Argv(i)[k]) \/ IsFlag(Argv(i)[k - 1])

\* C14 as amended: the command built for init is <interpreter> <server.py> init,
\* then the key-file path, if one was supplied, as one positional argument, then
\* --github-token and the token, if one was supplied; the project directory is
\* never an argument.
C14_InitArguments ==
    [][ \A i \in 1..MaxOps :
          (/\ i \in OpIds
           /\ ops[i].kind = "init"
           /\ ops[i].pc = "resolve"
           /\ ops'[i].pc = "exec")
          => LET argv == ShellWords(ops'[i].command).argv
             IN  /\ ~ShellWords(ops'[i].command).syntaxError
                 /\ Len(argv) >= 3
                 /\ argv[2] = Chars(ServerPath)
                 /\ argv[3] = <<"init">>
                 /\ SubSeq(argv, 4, Len(argv)) =
                        (IF ops[i].envFilePath \notin {None, ""}
                         THEN << Chars(ops[i].envFilePath) >> ELSE <<>>)
                        \o (IF ops[i].githubToken \notin {None, ""}
                            THEN << <<"--github-token">>, Chars(ops[i].githubToken) >>
                            ELSE <<>>)
                 /\ \A k \in 1..Len(argv) : argv[k] # Chars(ops[i].target) ]_vars

C14_Witness ==
    \E i \in OpIds :
        /\ ops[i].kind = "init" /\ InFlight(i)
        /\ Len(Argv(i)) = 6
        /\ Argv(i)[4] = <<".env.production">>
        /\ Argv(i)[5] = <<"--github-token">>

\* C15: the subprocess of a running lock is started with exactly the arguments
\* <interpreter>, <server.py>, lock, <target>, the last being the literal path
\* of the target, whatever spaces and double quotes the path holds.
C15_LockTargetsLiteralPath ==
    \A i \in OpIds :
        (LockRun(i) /\ InFlight(i)) =>
            /\ ~ShellWords(ops[i].command).syntaxError
            /\ Argv(i) = << Chars(ops[i].pythonPath), Chars(ServerPath),
                            <<"lock">>, Chars(ops[i].target) >>

\* C16: when getPythonPath returns and the bundled server.py is not on disk,
\* whatever the kind of the operation, the build throws: the operation goes
\* from awaiting the interpreter straight to its catch block, with no command
\* handed to execAsync, its status item disposed and the error shown; and an
\* operation that caught this error is never one whose subprocess runs.
C16_MissingServerSpawnsNothing ==
    [][ /\ \A i \in 1..MaxOps : \A env \in FailingEnvs :
              (/\ i \in OpIds
               /\ ops[i].pc = "resolve"
               /\ ops'[i].pc # "resolve"
               /\ getPythonPathReturns(i, env, FALSE)) =>
                  /\ ops'[i].pc = "failed"
                  /\ ops'[i].item = "disposed"
                  /\ ops'[i].command = <<>>
                  /\ ops'[i].error = BundledNotFound
                  /\ handlePysealerError(BundledNotFound) \in MessagesOf(i)'
        /\ \A i \in 1..Len(ops') :
              ops'[i].error = BundledNotFound => ops'[i].pc = "failed" ]_vars

C16_Witness ==
    \E i \in OpIds : \E j \in OpIds :
        /\ ops[i].kind = "init" /\ ops[j].kind \in FileKinds
        /\ ops[i].error = BundledNotFound /\ ops[j].error = BundledNotFound
        /\ ops[i].item = "disposed" /\ ops[j].item = "disposed"
        /\ ops[j].pyEnv = PyEnv(FALSE, "", FALSE, FALSE)

(***************************************************************************)
(* Interpreter resolution.                                                 *)
(***************************************************************************)
\* getPythonPath has returned to the operation
Resolved(i) == ops[i].pythonPath # None

\* the Python extension reported an interpreter path
Reported(env) == ~env.extThrows /\ env.extPath # ""

\* C17: the first source that succeeds wins, in the order extension, python3,
\* python, and no source after it is probed: with a reported path there is no
\* probe; else with python3 answering only python3 is probed; else with python
\* answering python3 and python are probed, in that order.
C17_FirstSourceWins ==
    \A i \in OpIds :
        Resolved(i) =>
            LET env == ops[i].pyEnv
            IN  /\ Reported(env) =>
                       /\ ops[i].pythonPath = env.extPath
                       /\ ops[i].probes = <<>>
                /\ (~Reported(env) /\ env.python3) =>
                       /\ ops[i].pythonPath = "python3"
                       /\ ops[i].probes = <<"python3 --version">>
                /\ (~Reported(env) /\ ~env.python3 /\ env.python) =>
                       /\ ops[i].pythonPath = "python"
                       /\ ops[i].probes = <<"python3 --version", "python --version">>

C17_Witness ==
    \E i \in OpIds : \E j \in OpIds :
        /\ ops[i].pyEnv = ConfiguredEnv /\ ops[i].pythonPath = "/venv/bin/python"
        /\ ops[j].pyEnv = PyEnv(FALSE, "", FALSE, TRUE) /\ ops[j].pythonPath = "python"
        /\ InFlight(i) /\ InFlight(j)

\* C18: the interpreter is resolved once: all operations that have an
\* interpreter path have the same one, and at most one of them ran probes for it.
C18_ResolvedOnce ==
    \A i \in OpIds : \A j \in OpIds :
        (i # j /\ Resolved(i) /\ Resolved(j)) =>
            /\ ops[i].pythonPath = ops[j].pythonPath
            /\ ops[i].probes = <<>> \/ ops[j].probes = <<>>

\* nothing answers: no reported path (none, or the extension throws), no python3,
\* no python
NothingFound(env) ==
    /\ env.extThrows \/ env.extPath = ""
    /\ ~env.python3
    /\ ~env.python

PythonMissing ==
    Message("error",
            "Python is not installed or not found in PATH. Please install Python 3.8 or later.",
            {})

\* C19: when nothing answers, getPythonPath still returns, with python3, and the
\* operation goes on to execAsync with nothing shown; the failure comes from
\* execAsync, which cannot succeed, and the error handler shows it as an error.
C19_ResolutionNeverFails ==
    [][ /\ \A i \in 1..MaxOps : \A env \in PyEnvs :
              (/\ NothingFound(env)
               /\ i \in OpIds
               /\ ops[i].pc = "resolve"
               /\ ops'[i].pc # "resolve"
               /\ getPythonPathReturns(i, env, TRUE)) =>
                  /\ ops'[i].pc = "exec"
                  /\ ops'[i].pythonPath = "python3"
                  /\ messages' = messages
        /\ \A i \in 1..Len(ops') :
              (ops'[i].pythonPath # None /\ NothingFound(ops'[i].pyEnv)) =>
                  /\ ops'[i].pythonPath = "python3"
                  /\ ops'[i].pc \in {"exec", "failed"}
                  /\ ops'[i].pc = "failed" =>
                         \/ ops'[i].error = BundledNotFound
                         \/ /\ \E shell \in Shells :
                                   ops'[i].error = CommandNotFound("python3", shell)
                            /\ MessagesOf(i)' = {handlePysealerError(ops'[i].error)}
                            /\ \A m \in MessagesOf(i)' : m.level = "error" ]_vars

C19_Witness ==
    \E i \in OpIds : \E j \in OpIds :
        /\ ops[i].pyEnv = PyEnv(TRUE, "", FALSE, FALSE)
        /\ ops[i].error = CommandNotFound("python3", "bash")
        /\ PythonMissing \in MessagesOf(i)
        /\ ops[j].pyEnv = PyEnv(FALSE, "", FALSE, FALSE)
        /\ ops[j].pc = "exec"

(***************************************************************************)
(* The working directory.                                                  *)
(***************************************************************************)
\* the workspace root r owns the path p
Owns(r, p) == r = DirOf(p)

\* C20: with a workspace open, the subprocess of a lock, check or remove runs
\* in the root that owns the target, and in the first root when no root does.
C20_CwdIsOwningRoot ==
    \A i \in OpIds :
        (ops[i].kind \in FileKinds /\ InFlight(i) /\ Len(workspaceFolders) > 0) =>
            IF \E k \in 1..Len(workspaceFolders) : Owns(workspaceFolders[k], ops[i].target)
            THEN Owns(ops[i].cwd, ops[i].target)
            ELSE ops[i].cwd = workspaceFolders[1]

C20_Witness ==
    \E i \in OpIds : \E j \in OpIds :
        /\ workspaceFolders = <<"/other", "/ws">>
        /\ LockRun(i) /\ InFlight(i)
        /\ ops[i].target = "/ws/a.py" /\ ops[i].cwd = "/ws"
        /\ ops[j].kind \in {"check", "remove"} /\ InFlight(j)
        /\ ops[j].target = "/elsewhere/f.py" /\ ops[j].cwd = "/other"

(***************************************************************************)
(* File Discovery.                                                         *)
(***************************************************************************)
\* the names File Discovery is to skip
ExclusionSet ==
    { "venv", ".venv", "node_modules", "__pycache__", ".git", "dist", "build",
      ".tox", ".pytest_cache" }

\* Every entry below `dir`: its path, the names of the directories between the
\* root and the entry, and whether every directory from the root down to the
\* entry's own can be read.
RECURSIVE Nodes(_, _, _, _)
Nodes(dir, dirPath, above, reachable) ==
    UNION { LET entry == dir.entries[k]
                path  == Join(dirPath, entry.name)
            IN  { [path |-> path, entry |-> entry, above |-> above,
                   reachable |-> reachable /\ dir.readable] }
                \cup (IF entry.type = "dir"
                      THEN Nodes(entry, path, above \cup {entry.name},
                                 reachable /\ dir.readable)
                      ELSE {})
          : k \in 1..Len(dir.entries) }

NodesOf(i) == Nodes(bulks[i].tree, ops[i].target, {}, TRUE)

\* a regular file whose name ends with .py
PyFile(n) == n.entry.type = "file" /\ EndsWithPy(n.entry.name)

\* no directory between the root and the entry has a name of the exclusion set
NotExcluded(n) == n.above \cap ExclusionSet = {}

\* the operation is an initProject whose walk has returned
HasWalked(i) ==
    i \in DOMAIN bulks /\ ops[i].pc \in {"locking", "ok", "closed"}

Found(i) == { bulks[i].pythonFiles[k] : k \in 1..Len(bulks[i].pythonFiles) }

\* C21: File Discovery yields no path with a directory of the exclusion set
\* between the root and the file, at any depth; and it yields every regular .py
\* file that has no such directory above it and whose directories, from the
\* root down to its own, can all be read.
C21_DiscoverySkipsExcluded ==
    \A i \in OpIds :
        HasWalked(i) =>
            /\ \A p \in Found(i) : \E n \in NodesOf(i) : n.path = p /\ NotExcluded(n)
            /\ \A n \in NodesOf(i) :
                   (PyFile(n) /\ NotExcluded(n) /\ n.reachable) => n.path \in Found(i)

C21_Witness ==
    \E i \in OpIds :
        /\ HasWalked(i)
        /\ bulks[i].tree =
               Dir("root", TRUE,
                   << Dir("pkg", TRUE,
                          << Dir("node_modules", TRUE, << File("a.py") >>),
                             File("a.py") >>),
                      File("a.py") >>)
        /\ bulks[i].pythonFiles = << "/ws/pkg/a.py", "/ws/a.py" >>

\* C24: a directory that cannot be read costs the walk that directory's subtree
\* and nothing else: the walk returns normally, it yields no file from below an
\* unreadable directory, and it yields every other eligible file, those read
\* after the failure included.
C24_ReadErrorSkipsOnlySubtree ==
    \A i \in OpIds :
        /\ ops[i].error # ReadError
        /\ HasWalked(i) =>
               \A n \in NodesOf(i) :
                   (PyFile(n) /\ NotExcluded(n)) =>
                       (n.path \in Found(i) <=> n.reachable)

C24_Witness ==
    \E i \in OpIds :
        /\ HasWalked(i)
        /\ bulks[i].tree =
               Dir("root", TRUE,
                   << Dir("pkg", TRUE,
                          << Dir("pkg", FALSE, << File("a.py") >>), File("a.py") >>),
                      LaterDir >>)
        /\ bulks[i].pythonFiles = << "/ws/pkg/a.py", "/ws/later/n.py" >>

(***************************************************************************)
(* Project-wide initialization.                                            *)
(***************************************************************************)
\* the lock runs of the loop that ended with the outcome `locked`
Outcomes(i, locked) ==
    { k \in 1..Len(bulks[i].attempts) : bulks[i].attempts[k].locked = locked }

\* the final report of the operation has been shown
ReportShown(i) ==
    i \in DOMAIN bulks /\ ops[i].pc \in {"ok", "closed"} /\ bulks[i].pythonFiles # <<>>

\* C22: the loop tries the discovered files one by one, in order, each once,
\* whatever the outcomes; it ends only when all were tried; and the final report
\* shows succeeded and failed counts that add up to the number of discovered
\* files, the failed count being the number of lock runs that failed.
C22_PartialFailureIsCounted ==
    \A i \in OpIds :
        HasWalked(i) =>
            LET bulk == bulks[i]
            IN  /\ Len(bulk.attempts) <= Len(bulk.pythonFiles)
                /\ \A k \in 1..Len(bulk.attempts) :
                       bulk.attempts[k].file = bulk.pythonFiles[k]
                /\ Locking(i) => Len(bulk.attempts) < Len(bulk.pythonFiles)
                /\ ReportShown(i) =>
                       /\ Len(bulk.attempts) = Len(bulk.pythonFiles)
                       /\ bulk.lockedCount + bulk.failedCount = Len(bulk.pythonFiles)
                       /\ bulk.failedCount = Cardinality(Outcomes(i, FALSE))
                       /\ bulk.lockedCount = Cardinality(Outcomes(i, TRUE))
                       /\ MessagesOf(i) =
                              { FinalReport(Cardinality(Outcomes(i, TRUE)),
                                            Cardinality(Outcomes(i, FALSE))) }

C22_Witness ==
    \E i \in OpIds :
        /\ ReportShown(i)
        /\ bulks[i].attempts =
               << [file |-> "/ws/a.py", locked |-> TRUE],
                  [file |-> "/ws/b.py", locked |-> FALSE],
                  [file |-> "/ws/pkg/c.py", locked |-> TRUE] >>
        /\ MessagesOf(i) =
               { Message("warning", "Pysealer init complete: N files locked, M failed.",
                         { "2 locked", "1 failed" }) }

\* what File Discovery yields for the project root
Discovered == findPythonFiles(TheProject, "/ws").pythonFiles

\* C23: once the init subprocess of an initialize-project command has succeeded
\* and the command has finished, a lock was attempted on every file that File
\* Discovery yields for the project root.
C23_InitLocksEveryDiscoveredFile ==
    \A i \in OpIds :
        (ops[i].kind = "init" /\ ops[i].pc \in {"ok", "closed"}) =>
            /\ i \in DOMAIN bulks
            /\ \A k \in 1..Len(Discovered) :
                   \E a \in 1..Len(bulks[i].attempts) :
                       bulks[i].attempts[a].file = Discovered[k]

\* C25: while the loop of initialize-project awaits the lock subprocess of a
\* file, no lock subprocess started by a save or by the lock command is in
\* flight for that file.
C25_InitLoopRespectsInFlight ==
    \A i \in OpIds : \A j \in OpIds :
        (Locking(i) /\ LockRun(j) /\ InFlight(j)) => ops[j].target # CurrentFile(i)

(***************************************************************************)
(* The life of a run.                                                      *)
(***************************************************************************)
\* C26: when the subprocess of a run ends, with success or with failure, the run
\* is over: the operation has completed, it holds no command and is not in
\* flight, and it stays so; a failed run disposes its status item at once; and
\* a run triggered for a path whose earlier run failed is not held back.
C26_EndedRunLeavesPathIdle ==
    [][ /\ \A i \in 1..MaxOps :
              (/\ i \in OpIds
               /\ ops[i].pc = "exec"
               /\ ops'[i] # ops[i]
               /\ execAsyncSettles(i)) =>
                  /\ Completed(i)'
                  /\ ~InFlight(i)'
                  /\ ops'[i].command = <<>>
                  /\ ops'[i].pc = "failed" => ops'[i].item = "disposed"
        /\ \A i \in OpIds : Completed(i) => Completed(i)'
        /\ \A j \in 1..MaxOps :
              (/\ j \in OpIds
               /\ ops[j].pc = "resolve"
               /\ \E i \in 1..(j - 1) : SamePath(i, j) /\ ops[i].pc = "failed")
              => ENABLED execAsyncStarts(j) ]_vars

C26_Witness ==
    \E i \in OpIds : \E j \in OpIds :
        /\ i < j /\ SamePath(i, j) /\ LockRun(i) /\ LockRun(j)
        /\ ops[i].pc = "failed" /\ ops[i].item = "disposed"
        /\ InFlight(j)

\* C27: a trigger leaves every operation under way as it is, so it ends no
\* running subprocess; and the run of a save that arrived while a run for the
\* same path was in flight starts its subprocess only after that run finished.
C27_TriggerNeverCancels ==
    [][ /\ \A d \in Docs :
              (saveHandler(d) \/ lockCommand(d)) =>
                  \A i \in OpIds : ops'[i] = ops[i]
        /\ \A j \in OpIds :
              (LockRun(j) /\ ops[j].pc = "resolve" /\ ops'[j].pc = "exec") =>
                  \A i \in 1..(j - 1) :
                      (LockRun(i) /\ SamePath(i, j)) => ~InFlight(i) ]_vars

(***************************************************************************)
(* Status items.                                                           *)
(***************************************************************************)
\* the state of the operation's status item that goes with its position
ItemAt(pc) ==
    CASE pc \in {"pickEnv", "inputEnv", "pickToken", "inputToken", "cancelled"} -> "none"
      [] pc \in {"resolve", "exec", "hung"} -> "spinning"
      [] pc = "ok"                          -> "success"
      [] pc \in {"failed", "closed"}        -> "disposed"

\* C28: each operation has its own status item: created when the operation
\* proper starts, disposed in the step that catches an error, left showing the
\* success text until the operation's timer disposes it, and never changed by a
\* step of another operation; once every operation has returned and every
\* pending timer has fired, every item created is disposed.
C28_StatusItemOwnedByOperation ==
    [][ /\ \A i \in 1..Len(ops') : ops'[i].item = ItemAt(ops'[i].pc)
        /\ \A i \in OpIds :
              ops'[i].item # ops[i].item =>
                  /\ ops'[i].pc # ops[i].pc
                  /\ \A j \in OpIds \ {i} : ops'[j] = ops[j]
                  /\ ops[i].item # "disposed"
        /\ \A i \in 1..MaxOps :
              (i \in OpIds /\ ops[i].pc = "ok") => ENABLED statusTimeout(i)
        /\ (\A i \in 1..Len(ops') : ops'[i].pc \in {"closed", "failed", "cancelled"})
               => \A i \in 1..Len(ops') : ops'[i].item \in {"none", "disposed"} ]_vars

C28_Witness ==
    \E i \in OpIds : \E j \in OpIds :
        /\ ops[i].kind = "init"  /\ ops[i].pc = "failed" /\ ops[i].item = "disposed"
        /\ ops[j].kind = "check" /\ ops[j].pc = "closed" /\ ops[j].item = "disposed"

(***************************************************************************)
(* The command line of lock, check and remove.                             *)
(***************************************************************************)
\* C29: the subprocess of a running lock, check or remove is started with
\* exactly four arguments: the interpreter, server.py, the name of the operation
\* requested, and the path of the target as one argument.
C29_FileCommandHasFourArguments ==
    \A i \in OpIds :
        (ops[i].kind \in FileKinds /\ InFlight(i)) =>
            /\ ~ShellWords(ops[i].command).syntaxError
            /\ Len(Argv(i)) = 4
            /\ Argv(i)[1] = Chars(ops[i].pythonPath)
            /\ Argv(i)[2] = Chars(ServerPath)
            /\ Argv(i)[3] = << ops[i].kind >>
            /\ Argv(i)[4] = Chars(ops[i].target)

(***************************************************************************)
(* The working directory of init.                                          *)
(***************************************************************************)
\* C30: with no workspace folder open initialize-project shows an error and
\* starts nothing; otherwise the operation it starts has the first workspace
\* folder for project root, and its subprocess runs there.
C30_InitRunsInProjectRoot ==
    [][ /\ \A e \in Editors :
              initCommand(e) =>
                  IF Len(workspaceFolders) = 0
                  THEN /\ ops' = ops
                       /\ Message("error", "No workspace folder open", {})
                              \in { m.msg : m \in messages' }
                  ELSE /\ Len(ops') = Len(ops) + 1
                       /\ ops'[Len(ops')].cwd = workspaceFolders[1]
        /\ \A i \in 1..Len(ops') :
              ops'[i].kind = "init" =>
                  /\ Len(workspaceFolders) > 0
                  /\ ops'[i].cwd = workspaceFolders[1]
                  /\ ops'[i].target = workspaceFolders[1] ]_vars

C30_Witness ==
    \E i \in OpIds :
        /\ workspaceFolders = << "/other", "/ws" >>
        /\ ops[i].kind = "init" /\ InFlight(i)
        /\ ops[i].cwd = "/other"

(***************************************************************************)
(* The results of check.                                                   *)
(***************************************************************************)
\* the informational message that carries the output of check
Summary(text) == Message("info", "Pysealer check: ", {text})

IsSummary(m) == m.text = "Pysealer check: "

\* C31: when the subprocess of a check exits with code 0 having written a
\* non-empty stdout, that stdout, trimmed, is shown in an informational message
\* of the operation, and nothing else is; when it exits with another code no
\* summary is shown and the one message of the operation is the error
\* handler's; and no operation but a check that succeeded ever has a summary.
C31_CheckSummaryOnSuccessOnly ==
    [][ /\ \A i \in 1..MaxOps :
              (/\ i \in OpIds
               /\ ops[i].kind = "check"
               /\ ops[i].pc = "exec"
               /\ ops'[i].pc # "exec") =>
                  /\ \A stdout \in Stdouts :
                         (ops'[i].pc = "ok" /\ execAsyncResolves(i, stdout)) =>
                             MessagesOf(i)' =
                                 IF stdout # "" THEN { Summary(Trim(stdout)) } ELSE {}
                  /\ ops'[i].pc = "failed" =>
                         /\ MessagesOf(i)' = { handlePysealerError(ops'[i].error) }
                         /\ \A m \in MessagesOf(i)' : ~IsSummary(m)
        /\ \A i \in 1..Len(ops') :
              (\E m \in MessagesOf(i)' : IsSummary(m)) =>
                  ops'[i].kind = "check" /\ ops'[i].pc \in {"ok", "closed"} ]_vars

C31_Witness ==
    \E i \in OpIds : \E j \in OpIds :
        /\ ops[i].kind = "check" /\ ops[i].pc = "ok"
        /\ MessagesOf(i) = { Summary("1 of 2 decorators valid") }
        /\ ops[j].kind = "check" /\ ops[j].pc = "failed"
        /\ ops[j].error = Rejection({"SyntaxError: invalid syntax"})
        /\ MessagesOf(j) = { Message("error", "Pysealer error: ", ops[j].error.message) }

(***************************************************************************)
(* The classes of the error handler.                                       *)
(***************************************************************************)
\* the interpreter the operation resolved cannot be launched on its machine
Unlaunchable(i) == Resolved(i) /\ ~Launchable(ops[i].pyEnv, ops[i].pythonPath)

\* C32: when the subprocess failed because the resolved interpreter could not
\* be launched (the shell did not find python3 or python, or the spawn failed
\* with ENOENT), the one message of the operation is the install-Python one.
C32_UnlaunchableIsInterpreterNotFound ==
    \A i \in OpIds :
        (/\ Caught(i)
         /\ ops[i].error # BundledNotFound
         /\ Unlaunchable(i) \/ "ENOENT" \in ops[i].error.message)
        => MessagesOf(i) = { PythonMissing }

\* the message of the branch for a bundled tool that is missing
ToolMissing ==
    Message("error",
            "Pysealer bundled libraries are missing. Please reinstall the extension.",
            {})

\* the message of the last branch, which shows the raw message of the error
ToolReportedFailure(error) == Message("error", "Pysealer error: ", error.message)

\* C33: when the build of the command threw because the bundled server.py is
\* not on disk, the one message of the operation is that of the bundled-tool-
\* missing branch, not the raw message of the last branch.
C33_MissingServerIsToolMissing ==
    \A i \in OpIds :
        ops[i].error = BundledNotFound =>
            /\ MessagesOf(i) = { ToolMissing }
            /\ ToolReportedFailure(ops[i].error) \notin MessagesOf(i)

\* the patterns of each class, looked for in any letter case in the message and
\* the stderr together, except ENOENT, looked for as written in the message
MatchesAlreadyInitialized(error) ==
    \E phrase \in {"already initialized", "already been initialized"} :
        IncludesAnyCase(error.message \cup error.stderr, phrase)

MatchesInterpreterNotFound(error) ==
    \/ \E phrase \in {"python: command not found", "python3: command not found",
                       "is not recognized as an internal or external command"} :
           IncludesAnyCase(error.message \cup error.stderr, phrase)
    \/ "ENOENT" \in error.message

MatchesLibrariesMissing(error) ==
    \E phrase \in {"could not import pysealer", "no module named"} :
        IncludesAnyCase(error.message \cup error.stderr, phrase)

AlreadyInitialized == Message("info", "Project is already initialized with pysealer.", {})

\* C34: every caught failure leaves its operation with exactly one message, that
\* of the first class it matches in the order already-initialized, interpreter-
\* not-found, bundled-libraries-missing, raw message.
C34_OneMessageByPrecedence ==
    \A i \in OpIds :
        Caught(i) =>
            MessagesOf(i) =
                { IF MatchesAlreadyInitialized(ops[i].error) THEN AlreadyInitialized
                  ELSE IF MatchesInterpreterNotFound(ops[i].error) THEN PythonMissing
                  ELSE IF MatchesLibrariesMissing(ops[i].error) THEN ToolMissing
                  ELSE ToolReportedFailure(ops[i].error) }

C34_Witness ==
    \E i \in OpIds : \E j \in OpIds :
        /\ ops[i].error = Rejection({"python3: command not found", "No module named"})
        /\ MessagesOf(i) = { PythonMissing }
        /\ ops[j].error = Rejection({"Already Initialized", "No module named"})
        /\ MessagesOf(j) = { AlreadyInitialized }

(***************************************************************************)
(* The order of project-wide initialization.                               *)
(***************************************************************************)
\* the operation is an initProject of extension.ts
IsBulk(i) == i \in DOMAIN bulks

\* C35: the loop is entered only from the await of an init that succeeded; an
\* initProject that caught a failure, the already-initialized one included, has
\* ended with no file discovered, no lock attempted and no command running, and
\* it stays so.
C35_NoSealingAfterFailedInit ==
    [][ \A i \in 1..Len(ops') :
          IsBulk(i)' =>
              /\ Caught(i)' =>
                     /\ ops'[i].pc = "failed"
                     /\ ops'[i].command = <<>>
                     /\ bulks'[i].pythonFiles = <<>>
                     /\ bulks'[i].attempts = <<>>
              /\ (Locking(i)' /\ i \in OpIds /\ ~Locking(i)) =>
                     ops[i].pc = "initExec" /\ ~Caught(i)'
              /\ (i \in OpIds /\ ops[i].pc = "failed") =>
                     ops'[i] = ops[i] /\ bulks'[i] = bulks[i] ]_vars

C35_Witness ==
    \E i \in OpIds : \E j \in OpIds :
        /\ IsBulk(i) /\ IsBulk(j)
        /\ ops[i].error = Rejection({"Already Initialized"})
        /\ MessagesOf(i) = { AlreadyInitialized }
        /\ bulks[i].tree = TheProject
        /\ bulks[i].attempts = <<>>
        /\ bulks[j].tree = TheProject
        /\ Locking(j)

\* the arguments of the lock subprocess the loop of the operation awaits
LockArgv(i, file) ==
    << Chars(ops[i].pythonPath), Chars(ServerPath), <<"lock">>, Chars(file) >>

\* C36: the loop has one lock subprocess at a time, that of the first file not
\* yet tried; it replaces the subprocess only in the step in which that one
\* exits, which records its outcome (and that of the files whose command could
\* not be built); so the files are tried in the order of discovery, each after
\* the one before it has succeeded or failed.
C36_LoopIsSequential ==
    [][ \A i \in OpIds :
          IsBulk(i) =>
              /\ Locking(i)' =>
                     /\ Len(bulks'[i].attempts) < Len(bulks'[i].pythonFiles)
                     /\ ShellWords(ops'[i].command).argv = LockArgv(i, CurrentFile(i))'
              /\ (Locking(i) /\ ops'[i].command # ops[i].command) =>
                     /\ Len(bulks'[i].attempts) > Len(bulks[i].attempts)
                     /\ bulks'[i].attempts[Len(bulks[i].attempts) + 1].file
                            = CurrentFile(i)
              /\ Len(bulks'[i].attempts) >= Len(bulks[i].attempts)
              /\ SubSeq(bulks'[i].attempts, 1, Len(bulks[i].attempts))
                     = bulks[i].attempts
              /\ \A k \in 1..Len(bulks'[i].attempts) :
                     bulks'[i].attempts[k].file = bulks'[i].pythonFiles[k] ]_vars

C36_Witness ==
    \E i \in OpIds :
        /\ IsBulk(i) /\ Locking(i)
        /\ bulks[i].pythonFiles = << "/ws/a.py", "/ws/b.py", "/ws/pkg/c.py" >>
        /\ bulks[i].attempts = << [file |-> "/ws/a.py", locked |-> FALSE],
                                  [file |-> "/ws/b.py", locked |-> TRUE] >>
        /\ Argv(i)[4] = << "/ws/pkg/c.py" >>

(***************************************************************************)
(* The prompts of initialize-project.                                      *)
(***************************************************************************)
Prompts == { "pickEnv", "inputEnv", "pickToken", "inputToken" }

\* the positions an initialize-project can be at right after `pc`
AfterPrompt(pc) ==
    CASE pc = "pickEnv"    -> { "inputEnv", "pickToken", "cancelled" }
      [] pc = "inputEnv"   -> { "pickToken", "cancelled" }
      [] pc = "pickToken"  -> { "inputToken", "resolve", "cancelled" }
      [] pc = "inputToken" -> { "resolve", "cancelled" }

\* the user dismisses the open prompt of the operation
Dismissed(i) == promptAnswered(i) /\ ops'[i].pc = "cancelled"

\* C37: every prompt can be dismissed, and the dismissal ends the command: no
\* status item was or will be created, no interpreter resolved, no command
\* built, and nothing happens to the operation afterwards.  The prompts come in
\* the order env-file choice, env path, token choice, token; the status item is
\* created and init started only from the token choice or the token input.
C37_CancelledPromptStartsNothing ==
    [][ \A i \in 1..MaxOps :
          (i \in OpIds /\ ops[i].kind = "init") =>
              /\ ops[i].pc \in Prompts =>
                     /\ ENABLED Dismissed(i)
                     /\ ops[i].item = "none"
                     /\ ~Resolved(i)
                     /\ ops'[i].pc \in AfterPrompt(ops[i].pc) \cup {ops[i].pc}
              /\ ops'[i].pc = "cancelled" =>
                     /\ ops'[i].item = "none"
                     /\ ops'[i].command = <<>>
                     /\ ~Resolved(i)'
              /\ ops[i].pc = "cancelled" => ops'[i] = ops[i]
              /\ (ops[i].item = "none" /\ ops'[i].item # "none") =>
                     /\ ops[i].pc \in { "pickToken", "inputToken" }
                     /\ ops'[i].pc = "resolve" ]_vars

C37_Witness ==
    \E i \in OpIds : \E j \in OpIds :
        /\ ops[i].kind = "init" /\ ops[i].pc = "cancelled" /\ ops[i].item = "none"
        /\ ops[j].kind = "init" /\ InFlight(j)
        /\ Len(Argv(j)) = 6

\* the user submits the empty string in the token input
EmptyTokenSubmitted(i) ==
    promptAnswered(i) /\ ops'[i].pc = "resolve" /\ ops'[i].githubToken = ""

\* the places of the token flag among the arguments
TokenFlags(argv) == { k \in 1..Len(argv) : argv[k] = <<"--github-token">> }

\* C38: the token input accepts the empty string and init then runs like any
\* other; the command built for init has the flag --github-token exactly when
\* the token supplied is not empty, once, as the last but one argument, with
\* the token after it.
C38_TokenFlagIffNonEmptyToken ==
    [][ \A i \in 1..MaxOps :
          (i \in OpIds /\ ops[i].kind = "init") =>
              /\ ops[i].pc = "inputToken" => ENABLED EmptyTokenSubmitted(i)
              /\ ops[i].pc = "resolve" => ENABLED execAsyncStarts(i)
              /\ (ops[i].pc = "resolve" /\ ops'[i].pc = "exec") =>
                     LET argv == ShellWords(ops'[i].command).argv
                     IN  IF ops[i].githubToken \in {None, ""}
                         THEN TokenFlags(argv) = {}
                         ELSE /\ TokenFlags(argv) = { Len(argv) - 1 }
                              /\ argv[Len(argv)] = Chars(ops[i].githubToken) ]_vars

C38_Witness ==
    \E i \in OpIds : \E j \in OpIds :
        /\ ops[i].kind = "init" /\ InFlight(i)
        /\ Argv(i) = << <<"/venv/bin/python">>, Chars(ServerPath), <<"init">>,
                        <<"--github-token">>, <<"ghp_token">> >>
        /\ ops[j].kind = "init" /\ ops[j].pc = "resolve" /\ ops[j].githubToken = ""

(***************************************************************************)
(* Activation.                                                             *)
(***************************************************************************)
\* the calls of activate that register a command or the save handler
Registrations ==
    { "registerLockFileCommand", "registerCheckFileCommand",
      "registerInitProjectCommand", "registerRemoveFileCommand",
      "registerAutoLockHandler" }

\* what the builder returns in the current state for a lock
BuiltNow(serverExists) ==
    getBundledPysealerCommand(serverExists, "python3", "/ws/a.py", "lock", None, None)

\* C39: activate stores the context before it registers anything; an operation
\* is triggered only with the context stored, and none ever catches the error
\* 'Pysealer utils not initialized'; the builder throws that error exactly
\* when no context is stored.
C39_ContextStoredBeforeRegistration ==
    [][ /\ \A k \in 1..Len(activation') :
              activation'[k] \in Registrations =>
                  \E h \in 1..(k - 1) : activation'[h] = "initializePysealerUtils"
        /\ Len(ops') > Len(ops) => extensionContext
        /\ \A i \in 1..Len(ops') : ops'[i].error # NotInitialized
        /\ \A serverExists \in BOOLEAN :
              (BuiltNow(serverExists).thrown
               /\ BuiltNow(serverExists).error = NotInitialized) <=> ~extensionContext
      ]_vars

C39_Witness ==
    \E i \in OpIds : \E j \in OpIds :
        /\ activation = Activated
        /\ ops[i].trigger = "save" /\ InFlight(i)
        /\ ops[j].trigger = "command" /\ ops[j].kind = "init" /\ InFlight(j)

=============================================================================
